---- MODULE Spec2Model ----
(***************************************************************************)
(* Duplex relay bot (alekcangp/ai-facilitator): the registration state     *)
(* machine, the relay router of bot.js handleMessage, the settings         *)
(* endpoints of server.js and the Opik-backed configuration store.         *)
(*                                                                         *)
(* Every request (an inbound Telegram message, POST /api/config,           *)
(* POST /api/config/reset) is run by a handler p.  A handler is an async   *)
(* function: it runs synchronously from one await to the next, so each     *)
(* action below is the code between two suspension points, and the shared  *)
(* state is touched exactly where the awaited call touches it.             *)
(*                                                                         *)
(* The Opik client is taken to be initialised (OPIK_API_KEY set) and the   *)
(* store, Telegram and the network to answer; the Capability Client        *)
(* (Gemini) may answer anything or throw.                                  *)
(***************************************************************************)
EXTENDS Integers, Sequences, FiniteSets, TLC

(* ------------------------------ bounds -------------------------------- *)
NumIds == 3          \* distinct Telegram identities that may write to the bot
MaxProcs == 2        \* handlers that may be in flight at once
MaxRequests == 4     \* requests accepted in one run of the sequential system
MaxConcRequests == 4 \* requests accepted in one run of the concurrent system
MaxIdleDays == 5     \* days the clock may run past the newest activity trace
MaxFbRequests == 2   \* messages accepted in one run of the feedback controller in service
MaxFbConcRequests == 2 \* messages accepted in one concurrent run of the feedback controller
MaxMidnights == 1    \* midnights that may pass after the newest relay
MaxIceRequests == 2  \* due checks started in one run of the scheduler
MaxIceConcRequests == 2
MaxResetRequests == 3
MaxFailRequests == 3
MaxPeriodRequests == 3
MaxReadFailRequests == 4

(* ---------------------------- vocabulary ------------------------------ *)
NoId == 0                         \* telegramId: null
Ids == 1..NumIds
Procs == 1..MaxProcs
Undef == "undefined"              \* an absent property (msg.from.language_code, languageCode)
NoName == "null"                  \* username: null
NoText == "undefined"             \* msg.text of a non-text message
NoRole == "null"                  \* identifySender's null

UserName(id) == "user" \o ToString(id)     \* msg.from.username of identity id

\* msg.text of the inbound messages considered
MsgTexts == {"/start", "/feedback warmer", "/feedback  ", "/feedback", "hi", NoText}
\* msg.from.language_code
Hints == {Undef, "ru"}

DefaultUser == [telegramId |-> NoId, username |-> NoName, language |-> "auto",
                customLanguage |-> "", languageCode |-> Undef]

PristineDefaultConfig ==
    [language |-> "en", userA |-> DefaultUser, userB |-> DefaultUser,
     style |-> "friendly", customStyle |-> "", stylizationEnabled |-> TRUE,
     icebreakerPeriodDays |-> 7]

(* ------------------------ pure helpers of bot.js ---------------------- *)
\* an identification that recognises nobody
identifySender_Nobody(telegramId, config) == NoRole

\* identifySender(telegramId, config)
identifySender(telegramId, config) ==
    IF config.userA.telegramId = telegramId THEN "A"
    ELSE IF config.userB.telegramId = telegramId THEN "B"
    ELSE NoRole

\* a router that answers the sender's own slot
getRecipientId_OwnSlot(senderRole, config) ==
    IF senderRole = "A" THEN config.userA.telegramId
    ELSE IF senderRole = "B" THEN config.userB.telegramId
    ELSE NoId

\* getRecipientId(senderRole, config)
getRecipientId(senderRole, config) ==
    IF senderRole = "A" THEN config.userB.telegramId
    ELSE IF senderRole = "B" THEN config.userA.telegramId
    ELSE NoId

OtherRole(role) == IF role = "A" THEN "B" ELSE "A"
UserOf(config, role) == IF role = "A" THEN config.userA ELSE config.userB

\* msg.from.language_code || 'en'
LanguageCodeOf(hint) == IF hint = Undef THEN "en" ELSE hint

\* config.userX = { ...config.userX, telegramId, username, languageCode }
RegisterUser(user, telegramId, hint) ==
    [user EXCEPT !.telegramId = telegramId,
                 !.username = UserName(telegramId),
                 !.languageCode = LanguageCodeOf(hint)]

\* if (config.userX.language === 'auto') config.userX.languageCode = ...
RefreshLanguageCode(user, hint) ==
    IF user.language = "auto"
    THEN [user EXCEPT !.languageCode = LanguageCodeOf(hint)]
    ELSE user

\* (user.language || 'auto'), then languageCode || 'en' when it is 'auto'
ResolveLanguage(user) ==
    LET l == IF user.language = "" THEN "auto" ELSE user.language
    IN  IF l = "auto"
        THEN (IF user.languageCode = Undef THEN "en" ELSE user.languageCode)
        ELSE l

\* messageText === '/start'
IsStart(text) == text = "/start"
\* messageText.toLowerCase().match(/^\/feedback\s+(.+)/i)
IsFeedbackCommand(text) == text \in {"/feedback warmer", "/feedback  "}
\* feedbackCommand[1].trim()
FeedbackComment(text) == IF text = "/feedback warmer" THEN "warmer" ELSE ""
\* messageText === '/feedback'
IsBareFeedback(text) == text = "/feedback"

(* ------------------------ pure helpers of llm.js ---------------------- *)
\* Replies of the Capability Client are sequences of characters; DQ, SQ and
\* the guillemets are the characters the clean-up expression looks at.
DQ == "\""
SQ == "'"
Guillemets == {"<<", ">>"}
IsSpace(c) == c = " "

RECURSIVE TrimLeft(_)
TrimLeft(s) == IF s # <<>> /\ IsSpace(Head(s)) THEN TrimLeft(Tail(s)) ELSE s
RECURSIVE TrimRight(_)
TrimRight(s) ==
    IF s # <<>> /\ IsSpace(s[Len(s)]) THEN TrimRight(SubSeq(s, 1, Len(s) - 1)) ELSE s
\* String.prototype.trim
Trim(s) == TrimRight(TrimLeft(s))

Positions(s, c) == {i \in 1..Len(s) : s[i] = c}
Max(S) == CHOOSE x \in S : \A y \in S : y <= x
Min(S) == CHOOSE x \in S : \A y \in S : x <= y

\* the alternative '[\s\S]*' of the expression: from the first single quote
\* to the last one, wherever it starts
RemoveSingleQuoted(s) ==
    LET q == Positions(s, SQ)
    IN  IF Cardinality(q) >= 2
        THEN SubSeq(s, 1, Min(q) - 1) \o SubSeq(s, Max(q) + 1, Len(s))
        ELSE s

\* stylizedText.replace(/^"[\s\S]*"|'[\s\S]*'|^[<<>>][\s\S]*[<<>>]$/g, '')
StripQuoted(s) ==
    LET d == Positions(s, DQ)
    IN  IF s # <<>> /\ s[1] = DQ /\ Cardinality(d) >= 2
        THEN RemoveSingleQuoted(SubSeq(s, Max(d) + 1, Len(s)))
        ELSE IF Len(s) >= 2 /\ s[1] \in Guillemets /\ s[Len(s)] \in Guillemets
             THEN <<>>
             ELSE RemoveSingleQuoted(s)

RECURSIVE Str(_)
\* the characters of a reply as one string
Str(s) == IF s = <<>> THEN "" ELSE Head(s) \o Str(Tail(s))

\* (response?.text || '').toString().trim(), then the replace(...).trim()
CleanReply(raw) ==
    LET t == Trim(raw) IN IF t = <<>> THEN t ELSE Trim(StripQuoted(t))

\* success: stylizedText.length >= 2
ReplySucceeds(raw) == Len(CleanReply(raw)) >= 2

\* finalResult = (!stylizedText || stylizedText.length < 2) ? originalMessage : stylizedText
FinalResult(raw, originalMessage) ==
    IF ReplySucceeds(raw) THEN Str(CleanReply(raw)) ELSE originalMessage

\* what ai.models.generateContent may resolve to (response.text), besides throwing
RawReplies ==
    { <<>>, <<"y">>, <<"H", "e", "y">>, <<" ", "y", " ">>,
      <<DQ, "H", "i", DQ>>, <<"I", SQ, "m", SQ>>, <<"H", "e", "l", "l", "o">> }
LlmOutcomes ==
    {[throws |-> TRUE, text |-> <<>>]} \cup {[throws |-> FALSE, text |-> r] : r \in RawReplies}

(* --------------------- prompts.js / prompt store ---------------------- *)
\* the styles and output languages a prompt record can be stored for
PromptStyles == {"friendly", "custom", "neutral"}
PromptLanguages == {"en", "ru", "custom"}
PromptKeys == PromptStyles \X PromptLanguages

\* generateBasePrompt(style, customStyle, language): the template is determined
\* by the style description and the language name, so it is kept as that pair
\* of arguments; getStyleDescription ignores customStyle unless style is 'custom'
\* and then falls back to 'natural and clear' when it is empty.
generateBasePrompt(style, customStyle, language) ==
    [style |-> style,
     customStyle |-> IF style = "custom" THEN customStyle ELSE "",
     language |-> language]

\* getDefaultPromptConfig(): prompt null, no comments, improvementCount 0.
\* A prompt text is its base template followed by its appended sections.
NoPrompt == [set |-> FALSE, base |-> generateBasePrompt("friendly", "", "en"), patches |-> <<>>]
getDefaultPromptConfig ==
    [prompt |-> NoPrompt, comments |-> <<>>, improvementCount |-> 0, lastImprovement |-> "null"]

(* ------------------------------- state -------------------------------- *)
VARIABLES
    storedConfig,        \* the bot_settings trace: [exists, input]
    DEFAULT_CONFIG,      \* opik.js DEFAULT_CONFIG, a module-level object
    prompts,             \* the prompt_configs trace: PromptKeys -> record
    activity,            \* newest stylize_message / generate_icebreaker trace: [seen, age in days]
    lastMessageTraces,   \* bot.js lastMessageTraces: Ids -> [set, style, language]
    improvements,        \* feedback-utils.js improvements: [count, date]
    messageCount,        \* opik-feedback.js messageCount
    ev,                  \* the evaluation pass started by each handler's stylizeMessage
    pc,                  \* where each handler stands
    loc,                 \* each handler's local variables
    eff,                 \* what each handler has done since it started
    contacted,           \* identities in the order of their first text message
    registering,         \* identities in the order of their first registering message
    requests,            \* requests accepted so far
    pairRelays,          \* per (style, language): messages handed to stylizeMessage so far
    idsSeen              \* how many identities have written to the bot so far

vars == <<storedConfig, DEFAULT_CONFIG, prompts, activity, lastMessageTraces,
          improvements, messageCount, ev, pc, loc, eff, contacted, registering,
          requests, pairRelays, idsSeen>>

storeVars == <<storedConfig, DEFAULT_CONFIG>>
feedbackVars == <<prompts, improvements, messageCount, ev>>
historyVars == <<contacted, registering, requests, pairRelays, idsSeen>>

\* improvements = { count: 0, date: null }
NoQuota == [count |-> 0, date |-> "null"]

\* no evaluation pass: what shouldEvaluateAndImprove holds before it is called
NoPass ==
    [pc |-> "idle", style |-> "friendly", language |-> "en", quotaSeen |-> NoQuota,
     lowMetrics |-> <<>>, next |-> 1, promptConfig |-> getDefaultPromptConfig,
     currentPrompt |-> NoPrompt, promptsData |-> [k \in PromptKeys |-> getDefaultPromptConfig],
     calls |-> <<>>, recorded |-> 0, promptWrites |-> 0, result |-> "none"]

NoTraceInfo == [set |-> FALSE, style |-> "friendly", language |-> "en"]

NoBody == [style |-> Undef, customStyle |-> Undef, stylizationEnabled |-> Undef,
           userALanguage |-> Undef, userACustomLanguage |-> Undef,
           userBLanguage |-> Undef, userBCustomLanguage |-> Undef,
           icebreakerPeriodDays |-> 0, periodGiven |-> FALSE, language |-> Undef]

IdleLoc ==
    [req |-> "none", from |-> NoId, text |-> NoText, hint |-> Undef, body |-> NoBody,
     configRead |-> PristineDefaultConfig, readFailed |-> FALSE,
     config |-> PristineDefaultConfig, aliasA |-> FALSE, aliasB |-> FALSE,
     senderRole |-> NoRole, recipientId |-> NoId,
     senderLanguage |-> "en", recipientLanguage |-> "en",
     style |-> "friendly", customStyle |-> "", prompt |-> NoPrompt,
     processedText |-> "", traced |-> FALSE, reply |-> "none", clearTrace |-> FALSE,
     next |-> "idle", quotaChecked |-> FALSE, quotaSeen |-> NoQuota, result |-> "none",
     comment |-> "", fbStyle |-> "friendly", fbLanguage |-> "en", outcome |-> "none",
     promptConfig |-> getDefaultPromptConfig, improvedPrompt |-> NoPrompt,
     improvement |-> "", promptsData |-> [k \in PromptKeys |-> getDefaultPromptConfig],
     iceConfig |-> PristineDefaultConfig, icebreaker |-> ""]

NoEff == [sends |-> <<>>, calls |-> <<>>, traces |-> <<>>, writes |-> 0, promptWrites |-> 0]

Init ==
    /\ storedConfig = [exists |-> FALSE, input |-> PristineDefaultConfig]
    /\ DEFAULT_CONFIG = PristineDefaultConfig
    /\ prompts = [k \in PromptKeys |-> getDefaultPromptConfig]
    /\ activity = [seen |-> FALSE, age |-> 0]
    /\ lastMessageTraces = [i \in Ids |-> NoTraceInfo]
    /\ improvements = NoQuota
    /\ messageCount = 0
    /\ ev = [p \in Procs |-> NoPass]
    /\ pc = [p \in Procs |-> "idle"]
    /\ loc = [p \in Procs |-> IdleLoc]
    /\ eff = [p \in Procs |-> NoEff]
    /\ contacted = <<>>
    /\ registering = <<>>
    /\ requests = 0
    /\ pairRelays = [k \in PromptKeys |-> 0]
    /\ idsSeen = 0

(* ------------------------- opik.js config store ----------------------- *)
\* readConfig(): { ...DEFAULT_CONFIG, ...traces[0].input } when the settings trace
\* exists, { ...DEFAULT_CONFIG } otherwise.  Both copies are shallow: with no
\* stored record the userA and userB of the copy ARE the objects of DEFAULT_CONFIG.
readConfig == IF storedConfig.exists THEN storedConfig.input ELSE DEFAULT_CONFIG
readConfigAliased == ~storedConfig.exists

\* the value an object graph has when it is serialised: a user object still
\* shared with DEFAULT_CONFIG has DEFAULT_CONFIG's current fields
Deref(l) ==
    [l.config EXCEPT !.userA = IF l.aliasA THEN DEFAULT_CONFIG.userA ELSE @,
                     !.userB = IF l.aliasB THEN DEFAULT_CONFIG.userB ELSE @]

\* writeConfig(config): the settings trace is updated (or created) with input: config
writeConfig(config) == [exists |-> TRUE, input |-> config]

(* -------------------- feedback-utils.js: the quota -------------------- *)
MAX_IMPROVEMENTS_PER_DAY == 10
\* a date check that moves to the new day but keeps the count
checkNewDay_KeepCount(imp) == IF imp.date # "today" THEN [imp EXCEPT !.date = "today"] ELSE imp

\* checkNewDay(): the date is kept as "today", "earlier" (a past day) or "null"
checkNewDay(imp) == IF imp.date # "today" THEN [count |-> 0, date |-> "today"] ELSE imp
\* a check that still lets an improvement through when the limit is reached
canImprove_Lenient(imp) == checkNewDay(imp).count <= MAX_IMPROVEMENTS_PER_DAY

\* canImprove(), evaluated on the counter checkNewDay leaves
canImprove(imp) == checkNewDay(imp).count < MAX_IMPROVEMENTS_PER_DAY
\* a pass that always evaluates the English prompt of the style
StartPass_English(style, language, imp) ==
    [NoPass EXCEPT !.style = style, !.language = "en",
                   !.quotaSeen = checkNewDay(imp),
                   !.pc = IF canImprove(imp) THEN "evFetch" ELSE "done",
                   !.result = IF canImprove(imp) THEN "none" ELSE "limit_reached"]

\* shouldEvaluateAndImprove(style, language) on a message for which isTime holds:
\* `if (!canImprove()) return`, else up to await fetchAndAverageScores
StartPass(style, language, imp) ==
    [NoPass EXCEPT !.style = style, !.language = language,
                   !.quotaSeen = checkNewDay(imp),
                   !.pc = IF canImprove(imp) THEN "evFetch" ELSE "done",
                   !.result = IF canImprove(imp) THEN "none" ELSE "limit_reached"]

(* ------------- bot.js handleMessage: from readConfig to the next await -- *)
WelcomeKey(role) == IF role = "A" THEN "welcomeUserA" ELSE "welcomeUserB"

\* config with the languageCode of the (known) sender refreshed in memory
WithRefreshedSender(config, role, hint) ==
    IF role = "A" THEN [config EXCEPT !.userA = RefreshLanguageCode(@, hint)]
    ELSE IF role = "B" THEN [config EXCEPT !.userB = RefreshLanguageCode(@, hint)]
    ELSE config

\* a registration that fills slot B before slot A
RegisterBranch_SlotBFirst(l, full) ==
    IF l.config.userB.telegramId = NoId
    THEN [l EXCEPT !.config = [l.config EXCEPT !.userB = RegisterUser(@, l.from, l.hint)],
                   !.aliasB = FALSE, !.reply = "welcomeUserB", !.next = "write"]
    ELSE IF l.config.userA.telegramId = NoId
    THEN [l EXCEPT !.config = [l.config EXCEPT !.userA = RegisterUser(@, l.from, l.hint)],
                   !.aliasA = FALSE, !.reply = "welcomeUserA", !.next = "write"]
    ELSE full

\* the two registration blocks shared by /start and by a first text message:
\* slot A if it is empty, else slot B if it is empty, else `full`
RegisterBranch(l, full) ==
    IF l.config.userA.telegramId = NoId
    THEN [l EXCEPT !.config = [l.config EXCEPT !.userA = RegisterUser(@, l.from, l.hint)],
                   !.aliasA = FALSE, !.reply = "welcomeUserA", !.next = "write"]
    ELSE IF l.config.userB.telegramId = NoId
    THEN [l EXCEPT !.config = [l.config EXCEPT !.userB = RegisterUser(@, l.from, l.hint)],
                   !.aliasB = FALSE, !.reply = "welcomeUserB", !.next = "write"]
    ELSE full

\* a /start that lets an unknown identity take slot B over when both are filled
StartBranch_Takeover(l) ==
    LET role == identifySender(l.from, l.config)
    IN  IF role # NoRole
        THEN [l EXCEPT !.senderRole = role,
                       !.config = WithRefreshedSender(l.config, role, l.hint),
                       !.reply = WelcomeKey(role), !.next = "reply"]
        ELSE RegisterBranch(l,
               [l EXCEPT !.config = [l.config EXCEPT !.userB = RegisterUser(@, l.from, l.hint)],
                         !.reply = "welcomeUserB", !.next = "write"])

\* a /start that registers a known identity again and saves the Configuration
StartBranch_Rewrite(l) ==
    LET role == identifySender(l.from, l.config)
    IN  IF role # NoRole
        THEN [l EXCEPT !.senderRole = role,
                       !.config = WithRefreshedSender(l.config, role, l.hint),
                       !.reply = WelcomeKey(role), !.next = "write"]
        ELSE RegisterBranch(l, [l EXCEPT !.reply = "alreadyRegistered", !.next = "reply"])

\* if (messageText === '/start') { ... }
StartBranch(l) ==
    LET role == identifySender(l.from, l.config)
    IN  IF role # NoRole
        THEN [l EXCEPT !.senderRole = role,
                       !.config = WithRefreshedSender(l.config, role, l.hint),
                       !.reply = WelcomeKey(role), !.next = "reply"]
        ELSE RegisterBranch(l, [l EXCEPT !.reply = "alreadyRegistered", !.next = "reply"])

\* if (feedbackCommand) { ... } up to the first await of processFeedbackComment
FeedbackCommandBranch(l) ==
    LET role == identifySender(l.from, l.config)
        comment == FeedbackComment(l.text)
        traceInfo == lastMessageTraces[l.from]
    IN  IF role = NoRole THEN [l EXCEPT !.reply = "notRegistered", !.next = "reply"]
        ELSE IF comment = ""
        THEN [l EXCEPT !.senderRole = role, !.reply = "feedbackUsage", !.next = "reply"]
        ELSE IF ~traceInfo.set
        THEN [l EXCEPT !.senderRole = role, !.reply = "noMessageToRate", !.next = "reply"]
        ELSE IF ~canImprove(improvements)
        THEN [l EXCEPT !.senderRole = role, !.comment = comment, !.quotaChecked = TRUE,
                       !.quotaSeen = checkNewDay(improvements), !.result = "limit_reached",
                       !.fbStyle = traceInfo.style, !.fbLanguage = traceInfo.language,
                       !.reply = "feedbackThanks", !.clearTrace = TRUE, !.next = "reply"]
        ELSE [l EXCEPT !.senderRole = role, !.comment = comment, !.quotaChecked = TRUE,
                       !.quotaSeen = checkNewDay(improvements),
                       !.fbStyle = traceInfo.style, !.fbLanguage = traceInfo.language,
                       !.clearTrace = TRUE, !.next = "fbGetPrompt"]

\* if (messageText === '/feedback') { ... }
BareFeedbackBranch(l) ==
    LET role == identifySender(l.from, l.config)
    IN  IF role = NoRole THEN [l EXCEPT !.reply = "registerFirst", !.next = "reply"]
        ELSE IF ~lastMessageTraces[l.from].set
        THEN [l EXCEPT !.senderRole = role, !.reply = "noFeedbackMessage", !.next = "reply"]
        ELSE [l EXCEPT !.senderRole = role, !.reply = "lastMessage", !.next = "reply"]

\* a mode selection that never passes a message through
RelayMode_AlwaysTransform(stylizationEnabled, languagesAreSame) ==
    IF ~stylizationEnabled THEN "translate" ELSE "stylize"

\* if (!stylizationEnabled && languagesAreSame) ... else if (!stylizationEnabled) ... else ...
RelayMode(stylizationEnabled, languagesAreSame) ==
    IF ~stylizationEnabled /\ languagesAreSame THEN "passThrough"
    ELSE IF ~stylizationEnabled THEN "translate"
    ELSE "stylize"

\* style arguments that carry the configured style into translation-only mode
StyleArguments_Configured(config, mode) ==
    IF mode = "passThrough" THEN [style |-> "none", customStyle |-> ""]
    ELSE [style |-> config.style, customStyle |-> config.customStyle]

\* the style and customStyle of each mode: 'none' for the pass-through trace,
\* stylizeMessage(text, 'neutral', '', ...) for translation only,
\* stylizeMessage(text, config.style, config.customStyle, ...) otherwise
StyleArguments(config, mode) ==
    IF mode = "passThrough" THEN [style |-> "none", customStyle |-> ""]
    ELSE IF mode = "translate" THEN [style |-> "neutral", customStyle |-> ""]
    ELSE [style |-> config.style, customStyle |-> config.customStyle]

\* the relay of a known sender's text: recipient, languages and mode
RelayBranch(l, role) ==
    LET config == WithRefreshedSender(l.config, role, l.hint)
        recipientId == getRecipientId(role, config)
        recipientLanguage == ResolveLanguage(UserOf(config, OtherRole(role)))
        senderLanguage == ResolveLanguage(UserOf(config, role))
        languagesAreSame == senderLanguage = recipientLanguage
        stylizationEnabled == config.stylizationEnabled # FALSE
        mode == RelayMode(stylizationEnabled, languagesAreSame)
        args == StyleArguments(config, mode)
        k == [l EXCEPT !.senderRole = role, !.config = config]
    IN  IF recipientId = NoId
        THEN [k EXCEPT !.reply = "otherUserNotRegistered", !.next = "reply"]
        ELSE LET r == [k EXCEPT !.recipientId = recipientId,
                                !.recipientLanguage = recipientLanguage,
                                !.senderLanguage = senderLanguage,
                                !.style = args.style, !.customStyle = args.customStyle]
             IN  IF mode = "passThrough"
                 THEN [r EXCEPT !.processedText = l.text, !.traced = TRUE,
                                !.next = "forward"]
                 ELSE [r EXCEPT !.next = "getPrompt"]
\* a handler that relays the very message that registers its sender in slot B
TextBranch_RelayFirst(l) ==
    LET role == identifySender(l.from, l.config)
        registered == [l EXCEPT !.config = [l.config EXCEPT !.userB = RegisterUser(@, l.from, l.hint)],
                                !.aliasB = FALSE]
    IN  IF l.text = NoText THEN [l EXCEPT !.next = "done"]
        ELSE IF role = NoRole
        THEN IF l.config.userA.telegramId # NoId /\ l.config.userB.telegramId = NoId
             THEN RelayBranch(registered, "B")
             ELSE RegisterBranch(l, [l EXCEPT !.next = "done"])
        ELSE RelayBranch(l, role)

\* a handler that leaves a sender without counterpart unanswered
TextBranch_SilentAlone(l) ==
    LET role == identifySender(l.from, l.config)
    IN  IF l.text = NoText THEN [l EXCEPT !.next = "done"]
        ELSE IF role = NoRole THEN RegisterBranch(l, [l EXCEPT !.next = "done"])
        ELSE IF getRecipientId(role, l.config) = NoId
        THEN [l EXCEPT !.senderRole = role, !.next = "done"]
        ELSE RelayBranch(l, role)

\* a handler that answers an unknown identity when both slots are filled
TextBranch_Reject(l) ==
    LET role == identifySender(l.from, l.config)
    IN  IF l.text = NoText THEN [l EXCEPT !.next = "done"]
        ELSE IF role = NoRole
        THEN RegisterBranch(l, [l EXCEPT !.reply = "otherUserNotRegistered", !.next = "reply"])
        ELSE RelayBranch(l, role)

\* the rest of handleMessage: non-text, unknown sender, known sender
TextBranch(l) ==
    LET role == identifySender(l.from, l.config)
    IN  IF l.text = NoText THEN [l EXCEPT !.next = "done"]
        ELSE IF role = NoRole THEN RegisterBranch(l, [l EXCEPT !.next = "done"])
        ELSE RelayBranch(l, role)

\* handleMessage(msg) from its readConfig to its next await
HandleSync(l) ==
    IF IsStart(l.text) THEN StartBranch(l)
    ELSE IF l.text # NoText /\ IsFeedbackCommand(l.text) THEN FeedbackCommandBranch(l)
    ELSE IF IsBareFeedback(l.text) THEN BareFeedbackBranch(l)
    ELSE TextBranch(l)

(* ------------------------------ bookkeeping --------------------------- *)
AddSend(e, to, key, text) ==
    [e EXCEPT !.sends = Append(@, [to |-> to, key |-> key, text |-> text])]
AddCall(e, call) == [e EXCEPT !.calls = Append(@, call)]
AddTrace(e, trace) == [e EXCEPT !.traces = Append(@, trace)]

\* createSimpleTrace('stylize_message', input, output, metadata)
StylizeTrace(l, style, customStyle, result, success, error) ==
    [name |-> "stylize_message", original_message |-> l.text, style |-> style,
     custom_style |-> customStyle, user_role |-> l.senderRole, result |-> result,
     language |-> l.recipientLanguage, success |-> success, error |-> error]

FirstTime(seq, id) == IF \E i \in 1..Len(seq) : seq[i] = id THEN seq ELSE Append(seq, id)

\* a text message that can register its sender: /start or a plain text
IsRegisteringText(text) ==
    text # NoText /\ ~(IsFeedbackCommand(text) \/ IsBareFeedback(text))

Messages == [from : Ids, text : MsgTexts, hint : Hints]

\* identities are numbered in the order in which they first write to the bot
\* (the code only ever compares them for equality)
InOrder(m) == m.from <= idsSeen + 1

(* ----------------------- bot.js handleMessage ------------------------- *)
\* const config = await readConfig(); ... up to the next await.  The
\* pass-through branch creates its trace and sets lastMessageTraces here.
HM_Begin(p, m, config, aliased, failed) ==
    LET l0 == [IdleLoc EXCEPT !.req = "message", !.from = m.from, !.text = m.text,
                              !.hint = m.hint, !.configRead = config,
                              !.config = config, !.readFailed = failed,
                              !.aliasA = aliased, !.aliasB = aliased]
        l1 == HandleSync(l0)
        passThrough == l1.next = "forward"
    IN  /\ pc[p] = "idle"
        /\ loc' = [loc EXCEPT ![p] = l1]
        /\ pc' = [pc EXCEPT ![p] = l1.next]
        /\ eff' = [eff EXCEPT ![p] =
                     IF passThrough
                     THEN AddTrace(NoEff, StylizeTrace(l1, "none", "", l1.text, TRUE, FALSE))
                     ELSE NoEff]
        /\ activity' = IF passThrough THEN [seen |-> TRUE, age |-> 0] ELSE activity
        /\ lastMessageTraces' =
             IF passThrough
             THEN [lastMessageTraces EXCEPT ![l1.recipientId] =
                     [set |-> TRUE, style |-> l1.config.style,
                      language |-> l1.recipientLanguage]]
             ELSE lastMessageTraces
        /\ improvements' = IF l1.quotaChecked THEN checkNewDay(improvements) ELSE improvements
        /\ contacted' = IF m.text # NoText THEN FirstTime(contacted, m.from) ELSE contacted
        /\ registering' = IF IsRegisteringText(m.text) THEN FirstTime(registering, m.from)
                          ELSE registering
        /\ requests' = requests + 1
        /\ idsSeen' = IF m.from > idsSeen THEN m.from ELSE idsSeen
        /\ UNCHANGED <<storeVars, prompts, messageCount, ev, pairRelays>>

\* handleMessage with a readConfig that found the store readable
HM_Receive(p, m) == HM_Begin(p, m, readConfig, readConfigAliased, FALSE)

\* handleMessage with a readConfig whose search threw: the catch logs the
\* error and readConfig returns { ...DEFAULT_CONFIG }
HM_ReceiveReadFails(p, m) == HM_Begin(p, m, DEFAULT_CONFIG, TRUE, TRUE)

\* await writeConfig(config) of a registration
HM_Write(p) ==
    /\ pc[p] = "write"
    /\ storedConfig' = writeConfig(Deref(loc[p]))
    /\ eff' = [eff EXCEPT ![p].writes = @ + 1]
    /\ pc' = [pc EXCEPT ![p] = "reply"]
    /\ UNCHANGED <<feedbackVars, historyVars, DEFAULT_CONFIG, activity, lastMessageTraces, loc>>

\* the same with a store write that fails: writeConfig catches the error and
\* returns, the handler goes on to its reply
HM_WriteFails(p) ==
    /\ pc[p] = "write"
    /\ pc' = [pc EXCEPT ![p] = "reply"]
    /\ UNCHANGED <<storeVars, feedbackVars, historyVars, activity, lastMessageTraces, loc, eff>>

\* await bot.sendMessage(telegramId, <reply>); return  (after a feedback
\* command that reached processFeedbackComment: lastMessageTraces.delete)
HM_Reply(p) ==
    /\ pc[p] = "reply"
    /\ eff' = [eff EXCEPT ![p] = AddSend(@, loc[p].from, loc[p].reply, "")]
    /\ lastMessageTraces' =
         IF loc[p].clearTrace
         THEN [lastMessageTraces EXCEPT ![loc[p].from] = NoTraceInfo]
         ELSE lastMessageTraces
    /\ pc' = [pc EXCEPT ![p] = "done"]
    /\ UNCHANGED <<storeVars, feedbackVars, historyVars, activity, loc>>

(* ------------------------- llm.js stylizeMessage ---------------------- *)
SCORE_CHECK_INTERVAL == 10

\* const promptConfig = await getPromptConfig(style, recipientLanguage)
HM_GetPrompt(p) ==
    /\ pc[p] = "getPrompt"
    /\ loc' = [loc EXCEPT ![p].prompt =
                 prompts[<<loc[p].style, loc[p].recipientLanguage>>].prompt]
    /\ pc' = [pc EXCEPT ![p] = "generate"]
    /\ UNCHANGED <<storeVars, feedbackVars, historyVars, activity, lastMessageTraces, eff>>
\* a transform that always sends the base template
PromptUsed_Base(l) ==
    [set |-> TRUE, base |-> generateBasePrompt(l.style, l.customStyle, l.recipientLanguage),
     patches |-> <<>>]

\* the prompt stylizeMessage sends: the stored one, else the base template
PromptUsed(l) ==
    IF l.prompt.set THEN l.prompt
    ELSE [set |-> TRUE, base |-> generateBasePrompt(l.style, l.customStyle, l.recipientLanguage),
          patches |-> <<>>]

\* a fallback that forwards nothing when the Capability Client throws
StylizeResult_Empty(o, originalMessage) ==
    IF o.throws THEN "" ELSE FinalResult(o.text, originalMessage)

\* one invocation of the Capability Client by stylizeMessage, and whether it threw
StylizeCall(l, threw) ==
    [purpose |-> "stylize", style |-> l.style, customStyle |-> l.customStyle,
     language |-> l.recipientLanguage, prompt |-> PromptUsed(l), threw |-> threw]

\* the text stylizeMessage returns: finalResult, or originalMessage from its catch
StylizeResult(o, originalMessage) ==
    IF o.throws THEN originalMessage ELSE FinalResult(o.text, originalMessage)

\* await ai.models.generateContent(...) with outcome o, then the trace, the
\* start of shouldEvaluateAndImprove, the return to handleMessage and its
\* lastMessageTraces.set, up to await bot.sendMessage(recipientId, ...)
HM_Generate(p, o) ==
    LET l == loc[p]
        final == StylizeResult(o, l.text)
        ok == ~o.throws /\ ReplySucceeds(o.text)
        trace == StylizeTrace(l, l.style, l.customStyle, final, ok, o.throws)
        \* shouldEvaluateAndImprove: messageCount++; messageCount % SCORE_CHECK_INTERVAL === 0
        isTime == ~o.throws /\ (messageCount + 1) % SCORE_CHECK_INTERVAL = 0
    IN  /\ pc[p] = "generate"
        /\ eff' = [eff EXCEPT ![p] = AddTrace(AddCall(@, StylizeCall(l, o.throws)), trace)]
        /\ activity' = [seen |-> TRUE, age |-> 0]
        /\ loc' = [loc EXCEPT ![p].processedText = final, ![p].traced = ~o.throws]
        /\ messageCount' = IF o.throws THEN messageCount ELSE messageCount + 1
        /\ improvements' = IF isTime THEN checkNewDay(improvements) ELSE improvements
        /\ isTime => ev[p].pc = "idle"
        /\ ev' = IF isTime
                 THEN [ev EXCEPT ![p] = StartPass(l.style, l.recipientLanguage, improvements)]
                 ELSE ev
        /\ lastMessageTraces' =
             IF o.throws THEN lastMessageTraces
             ELSE [lastMessageTraces EXCEPT ![l.recipientId] =
                     [set |-> TRUE, style |-> l.config.style,
                      language |-> l.recipientLanguage]]
        /\ pc' = [pc EXCEPT ![p] = "forward"]
        /\ pairRelays' = [pairRelays EXCEPT ![<<l.style, l.recipientLanguage>>] = @ + 1]
        /\ UNCHANGED <<storeVars, contacted, registering, requests, idsSeen, prompts>>
\* a forward that waits for the evaluation pass its stylizeMessage started
HM_Forward_AfterPass(p) ==
    /\ pc[p] = "forward"
    /\ ev[p].pc \in {"idle", "done"}
    /\ eff' = [eff EXCEPT ![p] = AddSend(@, loc[p].recipientId, "relay", loc[p].processedText)]
    /\ pc' = [pc EXCEPT ![p] = "iceRead"]
    /\ UNCHANGED <<storeVars, feedbackVars, historyVars, activity, lastMessageTraces, loc>>

\* await bot.sendMessage(recipientId, processedText); then triggerIcebreakerCheck
HM_Forward(p) ==
    /\ pc[p] = "forward"
    /\ eff' = [eff EXCEPT ![p] = AddSend(@, loc[p].recipientId, "relay", loc[p].processedText)]
    /\ pc' = [pc EXCEPT ![p] = "iceRead"]
    /\ UNCHANGED <<storeVars, feedbackVars, historyVars, activity, lastMessageTraces, loc>>

\* the handler has returned
Return(p) ==
    /\ pc[p] = "done"
    /\ pc' = [pc EXCEPT ![p] = "idle"]
    /\ loc' = [loc EXCEPT ![p] = IdleLoc]
    /\ eff' = [eff EXCEPT ![p] = NoEff]
    /\ UNCHANGED <<storeVars, feedbackVars, historyVars, activity, lastMessageTraces>>

(* --------------------- server.js POST /api/config --------------------- *)
Present(v) == v # Undef

\* if (icebreakerPeriodDays): a value that is absent from the body (periodGiven
\* false) is undefined, and undefined and 0 are both falsy
PeriodTruthy(b) == b.periodGiven /\ b.icebreakerPeriodDays # 0

\* a clamp without the upper end
ClampPeriod_NoCeiling(d) == IF d < 3 THEN 3 ELSE d

\* Math.max(3, Math.min(30, icebreakerPeriodDays))
ClampPeriod(d) == IF d < 3 THEN 3 ELSE IF d > 30 THEN 30 ELSE d

\* if (userXLanguage) { config.userX.language = ...; config.userX.customLanguage = ... || '' }
WithLanguage(user, language, customLanguage) ==
    IF Present(language)
    THEN [user EXCEPT !.language = language,
                      !.customLanguage = IF Present(customLanguage) THEN customLanguage ELSE ""]
    ELSE user

\* the assignments of the endpoint applied to config
ApplyBody(config, b) ==
    [config EXCEPT
       !.style = IF Present(b.style) THEN b.style ELSE @,
       !.customStyle = IF Present(b.customStyle) THEN b.customStyle ELSE @,
       !.stylizationEnabled = IF Present(b.stylizationEnabled)
                              THEN b.stylizationEnabled = "true" ELSE @,
       !.userA = WithLanguage(@, b.userALanguage, b.userACustomLanguage),
       !.userB = WithLanguage(@, b.userBLanguage, b.userBCustomLanguage),
       !.icebreakerPeriodDays = IF PeriodTruthy(b)
                                THEN ClampPeriod(b.icebreakerPeriodDays) ELSE @,
       !.language = IF b.language \in {"en", "ru"} THEN b.language ELSE @]

\* const config = await readConfig(); the assignments; up to await writeConfig.
\* With no stored record config.userA / config.userB are DEFAULT_CONFIG's own
\* objects, so the language assignments land in DEFAULT_CONFIG.
SC_Receive(p, b) ==
    LET l == [IdleLoc EXCEPT !.req = "save", !.body = b, !.configRead = readConfig,
                             !.config = ApplyBody(readConfig, b),
                             !.aliasA = readConfigAliased, !.aliasB = readConfigAliased,
                             !.next = "saveWrite"]
    IN  /\ pc[p] = "idle"
        /\ loc' = [loc EXCEPT ![p] = l]
        /\ pc' = [pc EXCEPT ![p] = "saveWrite"]
        /\ eff' = [eff EXCEPT ![p] = NoEff]
        /\ DEFAULT_CONFIG' =
             IF readConfigAliased
             THEN [DEFAULT_CONFIG EXCEPT
                     !.userA = WithLanguage(@, b.userALanguage, b.userACustomLanguage),
                     !.userB = WithLanguage(@, b.userBLanguage, b.userBCustomLanguage)]
             ELSE DEFAULT_CONFIG
        /\ requests' = requests + 1
        /\ UNCHANGED <<feedbackVars, storedConfig, activity, lastMessageTraces,
                       contacted, registering, pairRelays, idsSeen>>

\* await writeConfig(config); res.json({ success: true, config })
SC_Write(p) ==
    /\ pc[p] = "saveWrite"
    /\ storedConfig' = writeConfig(Deref(loc[p]))
    /\ eff' = [eff EXCEPT ![p].writes = @ + 1]
    /\ loc' = [loc EXCEPT ![p].reply = "success"]
    /\ pc' = [pc EXCEPT ![p] = "done"]
    /\ UNCHANGED <<feedbackVars, historyVars, DEFAULT_CONFIG, activity, lastMessageTraces>>

\* the same with a store write that fails: writeConfig catches the error, logs
\* it and returns, and the endpoint answers res.json({ success: true, config })
SC_WriteFails(p) ==
    /\ pc[p] = "saveWrite"
    /\ loc' = [loc EXCEPT ![p].reply = "success"]
    /\ pc' = [pc EXCEPT ![p] = "done"]
    /\ UNCHANGED <<storeVars, feedbackVars, historyVars, activity, lastMessageTraces, eff>>

(* ------------------ server.js POST /api/config/reset ------------------ *)
\* await writeConfig(DEFAULT_CONFIG)
RS_Receive(p) ==
    /\ pc[p] = "idle"
    /\ loc' = [loc EXCEPT ![p] = [IdleLoc EXCEPT !.req = "reset", !.next = "resetWrite"]]
    /\ pc' = [pc EXCEPT ![p] = "resetWrite"]
    /\ eff' = [eff EXCEPT ![p] = NoEff]
    /\ requests' = requests + 1
    /\ UNCHANGED <<storeVars, feedbackVars, activity, lastMessageTraces, contacted, registering,
                   pairRelays, idsSeen>>

RS_Write(p) ==
    /\ pc[p] = "resetWrite"
    /\ storedConfig' = writeConfig(DEFAULT_CONFIG)
    /\ eff' = [eff EXCEPT ![p].writes = @ + 1]
    /\ pc' = [pc EXCEPT ![p] = "resetDelete"]
    /\ contacted' = <<>>
    /\ registering' = <<>>
    /\ UNCHANGED <<feedbackVars, DEFAULT_CONFIG, activity, lastMessageTraces, loc, requests,
                   pairRelays, idsSeen>>

\* the same with a store write that fails: writeConfig catches the error and
\* returns, the endpoint goes on to deleteAllTraces
RS_WriteFails(p) ==
    /\ pc[p] = "resetWrite"
    /\ pc' = [pc EXCEPT ![p] = "resetDelete"]
    /\ contacted' = <<>>
    /\ registering' = <<>>
    /\ UNCHANGED <<storeVars, feedbackVars, activity, lastMessageTraces, loc, eff, requests,
                   pairRelays, idsSeen>>

\* await deleteAllTraces(): every trace searchOpikTraces(1000) returns is deleted,
\* the bot_settings and prompt_configs traces among them; res.json({ success: true, ... })
RS_Delete(p) ==
    /\ pc[p] = "resetDelete"
    /\ storedConfig' = [exists |-> FALSE, input |-> PristineDefaultConfig]
    /\ prompts' = [k \in PromptKeys |-> getDefaultPromptConfig]
    /\ activity' = [seen |-> FALSE, age |-> 0]
    /\ loc' = [loc EXCEPT ![p].reply = "success"]
    /\ pc' = [pc EXCEPT ![p] = "done"]
    /\ UNCHANGED <<historyVars, DEFAULT_CONFIG, improvements, messageCount, ev,
                   lastMessageTraces, eff>>

(* -------------- user-feedback.js processFeedbackComment --------------- *)
\* what generateImprovement's model call may give: it throws; a JSON object with
\* both fields; text that is no JSON; the JSON value null; JSON without an
\* "improvement" field
ImprovementOutcomes == {"throws", "object", "unparsable", "null", "noField"}
\* a generation that falls back to the input text whenever no object was parsed
generateImprovement_AlwaysFallback(input, o) ==
    IF o = "object" THEN [some |-> TRUE, issue |-> "tone", improvement |-> "be warmer"]
    ELSE IF o = "noField" THEN [some |-> TRUE, issue |-> "tone", improvement |-> ""]
    ELSE [some |-> TRUE, issue |-> "general", improvement |-> input]

\* generateImprovement(type, input, ...): null, or the parsed object, or
\* { issue: 'general', improvement: String(input) } when JSON.parse throws.
\* The result is [some, issue, improvement]; improvement "" is an absent field.
generateImprovement(input, o) ==
    IF o \in {"throws", "null"} THEN [some |-> FALSE, issue |-> "", improvement |-> ""]
    ELSE IF o = "object" THEN [some |-> TRUE, issue |-> "tone", improvement |-> "be warmer"]
    ELSE IF o = "unparsable" THEN [some |-> TRUE, issue |-> "general", improvement |-> input]
    ELSE [some |-> TRUE, issue |-> "tone", improvement |-> ""]

\* applyImprovement(prompt, improvement, source): prompt + section
applyImprovement(prompt, improvement, source) ==
    IF ~improvement.some \/ improvement.improvement = "" THEN prompt
    ELSE [prompt EXCEPT !.patches = Append(@, [timestamp |-> "now", source |-> source,
                                                 issue |-> improvement.issue,
                                                 action |-> improvement.improvement])]

\* config.prompt || generateBasePrompt(style, '', language)
CurrentPrompt(promptConfig, style, language) ==
    IF promptConfig.prompt.set THEN promptConfig.prompt
    ELSE [set |-> TRUE, base |-> generateBasePrompt(style, "", language), patches |-> <<>>]

\* comments.slice(-50)
LastFifty(seq) == IF Len(seq) > 50 THEN SubSeq(seq, Len(seq) - 49, Len(seq)) ELSE seq

\* const config = await getPromptConfig(style, language)
FB_GetPrompt(p) ==
    /\ pc[p] = "fbGetPrompt"
    /\ loc' = [loc EXCEPT ![p].promptConfig = prompts[<<loc[p].fbStyle, loc[p].fbLanguage>>]]
    /\ pc' = [pc EXCEPT ![p] = "fbGenerate"]
    /\ UNCHANGED <<storeVars, feedbackVars, historyVars, activity, lastMessageTraces, eff>>

\* const improvement = await generateImprovement('feedback', comment, ...) with
\* outcome o; then applyImprovement and comments.push, up to await updatePromptConfig
FB_Generate(p, o) ==
    LET l == loc[p]
        current == CurrentPrompt(l.promptConfig, l.fbStyle, l.fbLanguage)
        improvement == generateImprovement(l.comment, o)
        call == [purpose |-> "improve", style |-> l.fbStyle, customStyle |-> "",
                 language |-> l.fbLanguage, prompt |-> current, threw |-> o = "throws"]
    IN  /\ pc[p] = "fbGenerate"
        /\ eff' = [eff EXCEPT ![p] = AddCall(@, call)]
        /\ IF ~improvement.some
           THEN /\ loc' = [loc EXCEPT ![p].reply = "feedbackThanks", ![p].outcome = o,
                                      ![p].result = "generation_failed"]
                /\ pc' = [pc EXCEPT ![p] = "reply"]
           ELSE /\ loc' = [loc EXCEPT
                            ![p].improvedPrompt = applyImprovement(current, improvement, "user feedback"),
                            ![p].improvement = improvement.improvement,
                            ![p].outcome = o]
                /\ pc' = [pc EXCEPT ![p] = "fbUpdateRead"]
        /\ UNCHANGED <<storeVars, feedbackVars, historyVars, activity, lastMessageTraces>>

\* updatePromptConfig: const traces = await searchOpikTraces(1, name="prompt_configs")
FB_UpdateRead(p) ==
    /\ pc[p] = "fbUpdateRead"
    /\ loc' = [loc EXCEPT ![p].promptsData = prompts]
    /\ pc' = [pc EXCEPT ![p] = "fbUpdateWrite"]
    /\ UNCHANGED <<storeVars, feedbackVars, historyVars, activity, lastMessageTraces, eff>>

\* updatePromptConfig: the whole prompts object read above is written back with
\* the pair's record replaced; then recordImprovement() and the reply
FB_UpdateWrite(p) ==
    LET l == loc[p]
        k == <<l.fbStyle, l.fbLanguage>>
        record == [prompt |-> l.improvedPrompt,
                   comments |-> LastFifty(Append(l.promptConfig.comments, l.comment)),
                   improvementCount |-> l.promptConfig.improvementCount + 1,
                   lastImprovement |-> "set"]
    IN  /\ pc[p] = "fbUpdateWrite"
        /\ prompts' = [l.promptsData EXCEPT ![k] = record]
        /\ improvements' = [improvements EXCEPT !.count = @ + 1]
        /\ loc' = [loc EXCEPT ![p].reply = "feedbackThanksImproved", ![p].result = "improved"]
        /\ pc' = [pc EXCEPT ![p] = "reply"]
        /\ eff' = [eff EXCEPT ![p].promptWrites = @ + 1]
        /\ UNCHANGED <<storeVars, historyVars, messageCount, ev, activity, lastMessageTraces>>

(* ------------- opik-feedback.js shouldEvaluateAndImprove -------------- *)
\* the metrics fetchAndAverageScores may report below EVAL_THRESHOLD, in the
\* order of Object.entries(averages); <<>> when it returns null or none is low
LowMetricLists == {<<>>, <<"tone">>, <<"tone", "clarity">>}

\* String({ metric, score })
ObjectString == "[object Object]"

\* the head of `for (const { metric, score } of lowMetrics)`: the next metric
\* is tried if there is one and canImprove() holds, else the loop is left
LoopHead(pass, imp) ==
    IF pass.next <= Len(pass.lowMetrics) /\ canImprove(imp) THEN "evGenerate" ELSE "evUpdateRead"
\* canImprove() is called, and checkNewDay with it, when a metric is left
AfterLoopHead(pass, imp) ==
    IF pass.next <= Len(pass.lowMetrics) THEN checkNewDay(imp) ELSE imp

\* const averages = await fetchAndAverageScores(style, language); the two early
\* returns; lowMetrics; up to await getPromptConfig
EV_Fetch(p, low) ==
    /\ ev[p].pc = "evFetch"
    /\ ev' = [ev EXCEPT ![p] = IF low = <<>>
                               THEN [@ EXCEPT !.pc = "done", !.result = "no_low_metric"]
                               ELSE [@ EXCEPT !.pc = "evGetPrompt", !.lowMetrics = low]]
    /\ UNCHANGED <<storeVars, historyVars, prompts, improvements, messageCount, activity,
                   lastMessageTraces, pc, loc, eff>>

\* const config = await getPromptConfig(style, language); currentPrompt; loop head
EV_GetPrompt(p) ==
    LET promptConfig == prompts[<<ev[p].style, ev[p].language>>]
        pass == [ev[p] EXCEPT !.promptConfig = promptConfig,
                              !.currentPrompt = CurrentPrompt(promptConfig, ev[p].style,
                                                               ev[p].language)]
    IN  /\ ev[p].pc = "evGetPrompt"
        /\ ev' = [ev EXCEPT ![p] = [pass EXCEPT !.pc = LoopHead(pass, improvements)]]
        /\ improvements' = AfterLoopHead(pass, improvements)
        /\ UNCHANGED <<storeVars, historyVars, prompts, messageCount, activity,
                       lastMessageTraces, pc, loc, eff>>

\* const improvement = await generateImprovement('evaluation', { metric, score }, ...)
\* with outcome o; `continue` when it is null, else applyImprovement and
\* recordImprovement(); then the loop head again
EV_Generate(p, o) ==
    LET e == ev[p]
        metric == e.lowMetrics[e.next]
        improvement == generateImprovement(ObjectString, o)
        call == [purpose |-> "improve", style |-> e.style, customStyle |-> "",
                 language |-> e.language, prompt |-> e.currentPrompt, threw |-> o = "throws"]
        applied == applyImprovement(e.currentPrompt,
                                    [some |-> TRUE, issue |-> "AvgEval " \o metric,
                                     improvement |-> improvement.improvement],
                                    "evaluation")
        pass == IF improvement.some
                THEN [e EXCEPT !.calls = Append(@, call), !.next = @ + 1,
                               !.currentPrompt = applied, !.recorded = @ + 1]
                ELSE [e EXCEPT !.calls = Append(@, call), !.next = @ + 1]
        imp == IF improvement.some THEN [improvements EXCEPT !.count = @ + 1] ELSE improvements
    IN  /\ e.pc = "evGenerate"
        /\ ev' = [ev EXCEPT ![p] = [pass EXCEPT !.pc = LoopHead(pass, imp)]]
        /\ improvements' = AfterLoopHead(pass, imp)
        /\ UNCHANGED <<storeVars, historyVars, prompts, messageCount, activity,
                       lastMessageTraces, pc, loc, eff>>

\* updatePromptConfig: const traces = await searchOpikTraces(1, name="prompt_configs")
EV_UpdateRead(p) ==
    /\ ev[p].pc = "evUpdateRead"
    /\ ev' = [ev EXCEPT ![p].promptsData = prompts, ![p].pc = "evUpdateWrite"]
    /\ UNCHANGED <<storeVars, historyVars, prompts, improvements, messageCount, activity,
                   lastMessageTraces, pc, loc, eff>>

\* updatePromptConfig(style, language, { prompt: currentPrompt, lastImprovement,
\* improvementCount: (config.improvementCount || 0) + lowMetrics.length, ... }):
\* the prompts object read above is written back with the pair's record merged
EV_UpdateWrite(p) ==
    LET e == ev[p]
        k == <<e.style, e.language>>
        record == [e.promptsData[k] EXCEPT
                     !.prompt = e.currentPrompt,
                     !.lastImprovement = "set",
                     !.improvementCount = e.promptConfig.improvementCount + Len(e.lowMetrics)]
    IN  /\ e.pc = "evUpdateWrite"
        /\ prompts' = [e.promptsData EXCEPT ![k] = record]
        /\ ev' = [ev EXCEPT ![p].promptWrites = @ + 1, ![p].pc = "done",
                            ![p].result = "saved"]
        /\ UNCHANGED <<storeVars, historyVars, improvements, messageCount, activity,
                       lastMessageTraces, pc, loc, eff>>
\* generateImprovement rejects: getAI() is called outside its try, so an
\* exception of the client's constructor on first use leaves the pass through
\* the .catch of stylizeMessage's call
EV_Throw(p) ==
    /\ ev[p].pc = "evGenerate" /\ ev[p].calls = <<>>
    /\ ev' = [ev EXCEPT ![p].pc = "done", ![p].result = "error"]
    /\ UNCHANGED <<storeVars, historyVars, prompts, improvements, messageCount, activity,
                   lastMessageTraces, pc, loc, eff>>

\* the pass has returned
EV_Return(p) ==
    /\ ev[p].pc = "done"
    /\ ev' = [ev EXCEPT ![p] = NoPass]
    /\ UNCHANGED <<storeVars, historyVars, prompts, improvements, messageCount, activity,
                   lastMessageTraces, pc, loc, eff>>

(* ------------------------------ icebreaker.js ------------------------- *)
\* an interval without the floor of three days
IcebreakerIntervals_NoFloor(periodDays) == (periodDays - 2)..(periodDays + 2)
\* an interval that is rolled beyond period + 2 days
IcebreakerIntervals_Late(periodDays) == {periodDays + 4}

\* calculateIcebreakerInterval(periodDays): minDays + Math.random() * (maxDays - minDays)
\* days, taken in whole days
IcebreakerIntervals(periodDays) ==
    LET minDays == IF periodDays - 2 > 3 THEN periodDays - 2 ELSE 3
        maxDays == periodDays + 2
    IN  minDays..maxDays
\* a language choice that ignores the explicit preference
IcebreakerLanguage_Detected(user) ==
    IF user.languageCode = Undef THEN "en" ELSE user.languageCode

\* config.userX.language === 'auto' ? (config.userX.languageCode || 'en') : config.userX.language
IcebreakerLanguage(user) ==
    IF user.language = "auto"
    THEN (IF user.languageCode = Undef THEN "en" ELSE user.languageCode)
    ELSE user.language

\* generateIcebreaker's result for outcome o: the cleaned reply, or the
\* fallback text of the language when it throws or is shorter than 5
Icebreaker(o, language) ==
    IF o.throws \/ Len(CleanReply(o.text)) < 5 THEN "fallback " \o language
    ELSE Str(CleanReply(o.text))

\* POST /api/cron/icebreaker and the local scheduler: checkAndSendIcebreaker
CR_Receive(p) ==
    /\ pc[p] = "idle"
    /\ loc' = [loc EXCEPT ![p] = [IdleLoc EXCEPT !.req = "cron", !.next = "iceRead"]]
    /\ pc' = [pc EXCEPT ![p] = "iceRead"]
    /\ eff' = [eff EXCEPT ![p] = NoEff]
    /\ requests' = requests + 1
    /\ UNCHANGED <<storeVars, feedbackVars, activity, lastMessageTraces, contacted, registering,
                   pairRelays, idsSeen>>

\* checkAndSendIcebreaker: const config = await readConfig()
Ice_Read(p) ==
    /\ pc[p] = "iceRead"
    /\ loc' = [loc EXCEPT ![p].iceConfig = readConfig]
    /\ pc' = [pc EXCEPT ![p] = "iceActivity"]
    /\ UNCHANGED <<storeVars, feedbackVars, historyVars, activity, lastMessageTraces, eff>>

\* checkAndSendIcebreaker has returned.  Called through
\* triggerScheduledIcebreaker (the scheduler, the cron endpoint) the result is
\* { sent: true } and the endpoint answers sent: true, 'Icebreakers sent to both
\* users'; the check that ends a relay has no answer to give.
CheckReturned(l) == IF l.req = "cron" THEN [l EXCEPT !.reply = "sent"] ELSE l

\* const lastActivityTimestamp = await getLastActivityTimestamp(); the two early
\* returns, with the interval rolled as `interval`; fetchRecentMessagesFromOpik
Ice_Activity(p, interval) ==
    /\ pc[p] = "iceActivity"
    /\ interval \in IcebreakerIntervals(loc[p].iceConfig.icebreakerPeriodDays)
    /\ pc' = [pc EXCEPT ![p] = IF ~activity.seen \/ activity.age < interval
                               THEN "done" ELSE "iceGenA"]
    /\ loc' = [loc EXCEPT ![p] = IF ~activity.seen \/ activity.age < interval
                                 THEN CheckReturned(@) ELSE @]
    /\ UNCHANGED <<storeVars, feedbackVars, historyVars, activity, lastMessageTraces, eff>>

\* the generation leaves no trace behind
IcebreakerTraced_Unmoved == activity

\* generateIcebreaker ends with createSimpleTrace('generate_icebreaker', ...) on
\* both paths: the newest activity trace is the one just written
IcebreakerTraced == [seen |-> TRUE, age |-> 0]

\* const icebreakerX = await generateIcebreaker(recentMessages, style, customStyle, languageX)
Ice_Generate(p, role, o) ==
    LET l == loc[p]
        language == IcebreakerLanguage(UserOf(l.iceConfig, role))
        text == Icebreaker(o, language)
        call == [purpose |-> "icebreaker", style |-> l.iceConfig.style,
                 customStyle |-> l.iceConfig.customStyle, language |-> language,
                 prompt |-> NoPrompt, threw |-> o.throws]
        trace == [name |-> "generate_icebreaker", original_message |-> "",
                  style |-> l.iceConfig.style, custom_style |-> l.iceConfig.customStyle,
                  user_role |-> role, result |-> text, language |-> language,
                  success |-> ~(o.throws \/ Len(CleanReply(o.text)) < 5),
                  error |-> o.throws]
    IN  /\ pc[p] = IF role = "A" THEN "iceGenA" ELSE "iceGenB"
        /\ eff' = [eff EXCEPT ![p] = AddTrace(AddCall(@, call), trace)]
        /\ activity' = IcebreakerTraced
        /\ loc' = [loc EXCEPT ![p].icebreaker = text]
        /\ pc' = [pc EXCEPT ![p] = IF role = "A" THEN "iceSendA" ELSE "iceSendB"]
        /\ UNCHANGED <<storeVars, feedbackVars, historyVars, lastMessageTraces>>

\* await sendToUser(role, icebreakerX): bot.js sendToUser reads the config again
\* and sends to the identity now stored for the role, if any
Ice_Send(p, role) ==
    LET telegramId == UserOf(readConfig, role).telegramId
    IN  /\ pc[p] = IF role = "A" THEN "iceSendA" ELSE "iceSendB"
        /\ eff' = [eff EXCEPT ![p] = IF telegramId = NoId THEN @
                                      ELSE AddSend(@, telegramId, "icebreaker", loc[p].icebreaker)]
        /\ pc' = [pc EXCEPT ![p] = IF role = "A" THEN "iceGenB" ELSE "done"]
        /\ loc' = [loc EXCEPT ![p] = IF role = "A" THEN @ ELSE CheckReturned(@)]
        /\ UNCHANGED <<storeVars, feedbackVars, historyVars, activity, lastMessageTraces>>

\* await sendToUser(role, icebreakerX) when bot.sendMessage throws: sendToUser
\* catches the error and returns false, the check goes on
Ice_SendFails(p, role) ==
    /\ pc[p] = IF role = "A" THEN "iceSendA" ELSE "iceSendB"
    /\ pc' = [pc EXCEPT ![p] = IF role = "A" THEN "iceGenB" ELSE "done"]
    /\ loc' = [loc EXCEPT ![p] = IF role = "A" THEN @ ELSE CheckReturned(@)]
    /\ UNCHANGED <<storeVars, feedbackVars, historyVars, activity, lastMessageTraces, eff>>

\* setInterval(() => { checkAndSendIcebreaker(sendToUser) }, checkIntervalMs):
\* the scheduler fires again and again, its firings are not counted
SchedulerFires(p) ==
    /\ pc[p] = "idle"
    /\ loc' = [loc EXCEPT ![p] = [IdleLoc EXCEPT !.req = "cron", !.next = "iceRead"]]
    /\ pc' = [pc EXCEPT ![p] = "iceRead"]
    /\ eff' = [eff EXCEPT ![p] = NoEff]
    /\ UNCHANGED <<storeVars, feedbackVars, historyVars, activity, lastMessageTraces>>

(* --------------------------------- time -------------------------------- *)
\* a day passes: the newest activity trace is a day older and "today" is over
Tick ==
    /\ activity.seen \/ improvements.date = "today"
    /\ activity.seen => activity.age < MaxIdleDays
    /\ activity' = IF activity.seen THEN [activity EXCEPT !.age = @ + 1] ELSE activity
    /\ improvements' = [improvements EXCEPT !.date = IF @ = "null" THEN @ ELSE "earlier"]
    /\ UNCHANGED <<storeVars, historyVars, prompts, messageCount, ev,
                   lastMessageTraces, pc, loc, eff>>

(* --------------------------- specifications --------------------------- *)
\* request bodies of POST /api/config (JSON true / false written "true" / "false")
SaveBodies ==
    { [NoBody EXCEPT !.stylizationEnabled = "false"],
      [NoBody EXCEPT !.style = "custom", !.customStyle = "pirate"],
      [NoBody EXCEPT !.style = "custom", !.customStyle = "pirate",
                     !.stylizationEnabled = "false"],
      [NoBody EXCEPT !.userBLanguage = "ru"],
      [NoBody EXCEPT !.userALanguage = "custom", !.userACustomLanguage = "Klingon"] }

\* one step of a message, settings or reset handler that is in flight
Step(p) ==
    \/ HM_Write(p)
    \/ HM_Reply(p)
    \/ HM_GetPrompt(p)
    \/ \E o \in LlmOutcomes : HM_Generate(p, o)
    \/ HM_Forward(p)
    \/ FB_GetPrompt(p)
    \/ \E o \in ImprovementOutcomes : FB_Generate(p, o)
    \/ FB_UpdateRead(p)
    \/ FB_UpdateWrite(p)
    \/ SC_Write(p)
    \/ RS_Write(p)
    \/ RS_Delete(p)
    \/ Ice_Read(p)
    \/ \E d \in 3..32 : Ice_Activity(p, d)
    \/ Return(p)

\* one step of a due check that found the conversation due
DueStep(p) ==
    \/ \E role \in {"A", "B"}, o \in LlmOutcomes : Ice_Generate(p, role, o)
    \/ \E role \in {"A", "B"} : Ice_Send(p, role)

AllIdle == \A q \in Procs : pc[q] = "idle"

\* Requests handled one at a time: a request is accepted only when no handler
\* is in flight.  No day passes within a run, so the due check that ends every
\* relay finds the trace the relay has just written.
SeqAccept == AllIdle /\ requests < MaxRequests

Next ==
    \/ \E m \in Messages : SeqAccept /\ InOrder(m) /\ HM_Receive(1, m)
    \/ \E b \in SaveBodies : SeqAccept /\ SC_Receive(1, b)
    \/ SeqAccept /\ RS_Receive(1)
    \/ \E p \in Procs : Step(p)

Spec == Init /\ [][Next]_vars

\* Requests handled concurrently: up to MaxProcs handlers are in flight and
\* their steps interleave at the awaits.  The lowest idle handler takes the
\* next request.
ConcTexts == {"/start", "hi"}
ConcMessages == [from : Ids, text : ConcTexts, hint : {Undef}]
ConcBodies == {[NoBody EXCEPT !.stylizationEnabled = "false"]}
ConcOutcomes == {[throws |-> TRUE, text |-> <<>>], [throws |-> FALSE, text |-> <<"H", "e", "y">>]}

ConcAccept(p) ==
    /\ requests < MaxConcRequests
    /\ \A q \in Procs : q < p => pc[q] # "idle"

ConcStep(p) ==
    \/ HM_Write(p)
    \/ HM_Reply(p)
    \/ HM_GetPrompt(p)
    \/ \E o \in ConcOutcomes : HM_Generate(p, o)
    \/ HM_Forward(p)
    \/ SC_Write(p)
    \/ RS_Write(p)
    \/ RS_Delete(p)
    \/ Ice_Read(p)
    \/ \E d \in 3..32 : Ice_Activity(p, d)
    \/ Return(p)

ConcNext ==
    \/ \E p \in Procs, m \in ConcMessages : ConcAccept(p) /\ InOrder(m) /\ HM_Receive(p, m)
    \/ \E p \in Procs, b \in ConcBodies : ConcAccept(p) /\ SC_Receive(p, b)
    \/ \E p \in Procs : ConcAccept(p) /\ RS_Receive(p)
    \/ \E p \in Procs : ConcStep(p)

ConcSpec == Init /\ [][ConcNext]_vars

(* ------------------- the feedback controller in service ---------------- *)
\* The bot after it has been in service: identities 1 and 2 are registered,
\* messages have been relayed both ways since the process started, and each of
\* the two has a last received message to rate.  Slot B's language is either
\* detected ("auto", English) or set to Russian in the settings; the relays so
\* far went through the Capability Client, messageCount of them in all.
RegisteredUser(id, language) ==
    [telegramId |-> id, username |-> UserName(id), language |-> language,
     customLanguage |-> "", languageCode |-> "en"]

ServiceConfig(languageB) ==
    [PristineDefaultConfig EXCEPT !.userA = RegisteredUser(1, "auto"),
                                  !.userB = RegisteredUser(2, languageB)]

\* the relays counted so far, by the pair handed to stylizeMessage: with both
\* users on English every relay used (friendly, en); with slot B on Russian
\* every relay but one reply went to slot B and used (friendly, ru)
RelaysSoFar(languageB, n) ==
    [k \in PromptKeys |->
       IF languageB = "auto" THEN (IF k = <<"friendly", "en">> THEN n ELSE 0)
       ELSE IF k = <<"friendly", "ru">> THEN n - 1
       ELSE IF k = <<"friendly", "en">> THEN 1
       ELSE 0]

\* the quota so far: close to the limit or at it today, or left at the limit
\* on an earlier day
QuotaStarts ==
    {[count |-> c, date |-> "today"] :
       c \in (MAX_IMPROVEMENTS_PER_DAY - 2)..MAX_IMPROVEMENTS_PER_DAY}
    \cup {[count |-> MAX_IMPROVEMENTS_PER_DAY, date |-> "earlier"]}
\* messages counted since the process started
CountStarts == {SCORE_CHECK_INTERVAL - 2, SCORE_CHECK_INTERVAL - 1}

ServiceInit(languagesB, counts, quotas) ==
    /\ \E languageB \in languagesB, n \in counts :
         /\ storedConfig = writeConfig(ServiceConfig(languageB))
         /\ messageCount = n
         /\ pairRelays = RelaysSoFar(languageB, n)
         /\ lastMessageTraces =
              [i \in Ids |->
                 IF i = 1 THEN [set |-> TRUE, style |-> "friendly", language |-> "en"]
                 ELSE IF i = 2
                 THEN [set |-> TRUE, style |-> "friendly",
                       language |-> ResolveLanguage(RegisteredUser(2, languageB))]
                 ELSE NoTraceInfo]
    /\ DEFAULT_CONFIG = PristineDefaultConfig
    /\ prompts = [k \in PromptKeys |-> getDefaultPromptConfig]
    /\ activity = [seen |-> TRUE, age |-> 0]
    /\ improvements \in quotas
    /\ ev = [p \in Procs |-> NoPass]
    /\ pc = [p \in Procs |-> "idle"]
    /\ loc = [p \in Procs |-> IdleLoc]
    /\ eff = [p \in Procs |-> NoEff]
    /\ contacted = <<1, 2>>
    /\ registering = <<1, 2>>
    /\ requests = 0
    /\ idsSeen = 2

FbInit == ServiceInit({"auto", "ru"}, CountStarts, QuotaStarts)

FbTexts == {"/feedback warmer", "hi"}
FbMessages == [from : {1, 2}, text : FbTexts, hint : {Undef}]

\* one step of a message handler that is in flight
FbStep(p) ==
    \/ HM_Reply(p)
    \/ HM_GetPrompt(p)
    \/ \E o \in ConcOutcomes : HM_Generate(p, o)
    \/ HM_Forward(p)
    \/ FB_GetPrompt(p)
    \/ \E o \in ImprovementOutcomes : FB_Generate(p, o)
    \/ FB_UpdateRead(p)
    \/ FB_UpdateWrite(p)
    \/ Ice_Read(p)
    \/ \E d \in IcebreakerIntervals(PristineDefaultConfig.icebreakerPeriodDays) :
         Ice_Activity(p, d)
    \/ Return(p)

\* one step of an evaluation pass that is in flight
PassStep(p) ==
    \/ \E low \in LowMetricLists : EV_Fetch(p, low)
    \/ EV_GetPrompt(p)
    \/ \E o \in ImprovementOutcomes : EV_Generate(p, o)
    \/ EV_UpdateRead(p)
    \/ EV_UpdateWrite(p)
    \/ EV_Throw(p)
    \/ EV_Return(p)

\* midnight passes, at most MaxMidnights times after the newest relay
Midnight == activity.age < MaxMidnights /\ Tick

NoPassRunning == \A q \in Procs : ev[q].pc = "idle"

\* Messages handled one at a time, each evaluation pass finished before the
\* next message is accepted; the pass itself runs beside the handler that
\* started it, and midnight may pass while a pass is still in flight.
FbSeqAccept == AllIdle /\ NoPassRunning /\ requests < MaxFbRequests

FbNext ==
    \/ \E m \in FbMessages : FbSeqAccept /\ HM_Receive(1, m)
    \/ FbStep(1)
    \/ PassStep(1)
    \/ AllIdle /\ Midnight

FbSpec == FbInit /\ [][FbNext]_vars

\* The same system with the one progress guarantee the relay path has: a
\* pending bot.sendMessage of the forward is eventually carried out.  Nothing
\* is assumed about the evaluation pass, which may stay behind for ever.
FbFairSpec == FbSpec /\ \A p \in Procs : WF_vars(HM_Forward(p))

\* Messages handled concurrently: handlers and evaluation passes interleave at
\* their awaits.
FbConcAccept(p) ==
    /\ requests < MaxFbConcRequests
    /\ \A q \in Procs : q < p => pc[q] # "idle"

FbConcNext ==
    \/ \E p \in Procs, m \in FbMessages : FbConcAccept(p) /\ HM_Receive(p, m)
    \/ \E p \in Procs : FbStep(p)
    \/ \E p \in Procs : PassStep(p)

\* both users on English, two improvements left today, an evaluation pass due
\* with the next relay
FbConcInit ==
    ServiceInit({"auto"}, {SCORE_CHECK_INTERVAL - 1},
                {[count |-> MAX_IMPROVEMENTS_PER_DAY - 2, date |-> "today"]})

FbConcSpec == FbConcInit /\ [][FbConcNext]_vars

(* ------------------------- the due check in service ------------------- *)
\* icebreakerPeriodDays as POST /api/config can leave it: Math.max(3, Math.min(30, ...))
IcePeriods == 3..30
\* whole days since the newest activity trace, up to past the longest interval
IdleAges == 0..33

\* slot B's language settings: detected, set to Russian, or a custom language
SlotBLanguages == {"auto", "ru", "custom"}
SlotB(languageB) ==
    [RegisteredUser(2, languageB) EXCEPT
       !.customLanguage = IF languageB = "custom" THEN "Klingon" ELSE ""]

\* The bot some days after its last activity: identity 1 is registered, identity
\* 2 is registered or slot B is still empty; either no activity trace exists or
\* the newest one is `age` days old.
IceInit ==
    /\ \E period \in IcePeriods, languageB \in SlotBLanguages, full \in BOOLEAN :
         /\ (languageB # "auto" \/ ~full) => period = PristineDefaultConfig.icebreakerPeriodDays
         /\ storedConfig = writeConfig(
              [PristineDefaultConfig EXCEPT
                 !.userA = RegisteredUser(1, "auto"),
                 !.userB = IF full THEN SlotB(languageB) ELSE DefaultUser,
                 !.icebreakerPeriodDays = period])
         /\ contacted = IF full THEN <<1, 2>> ELSE <<1>>
         /\ registering = IF full THEN <<1, 2>> ELSE <<1>>
         /\ idsSeen = IF full THEN 2 ELSE 1
    /\ activity \in {[seen |-> FALSE, age |-> 0]} \cup {[seen |-> TRUE, age |-> a] : a \in IdleAges}
    /\ DEFAULT_CONFIG = PristineDefaultConfig
    /\ prompts = [k \in PromptKeys |-> getDefaultPromptConfig]
    /\ lastMessageTraces = [i \in Ids |-> NoTraceInfo]
    /\ improvements = NoQuota
    /\ messageCount = 0
    /\ pairRelays = [k \in PromptKeys |-> 0]
    /\ ev = [p \in Procs |-> NoPass]
    /\ pc = [p \in Procs |-> "idle"]
    /\ loc = [p \in Procs |-> IdleLoc]
    /\ eff = [p \in Procs |-> NoEff]
    /\ requests = 0

\* one step of a due check that is in flight
IceStep(p) ==
    \/ Ice_Read(p)
    \/ \E d \in IdleAges : Ice_Activity(p, d)
    \/ \E role \in {"A", "B"}, o \in ConcOutcomes : Ice_Generate(p, role, o)
    \/ \E role \in {"A", "B"} : Ice_Send(p, role)
    \/ Return(p)

\* Due checks of the scheduler and the cron endpoint, one at a time; no time
\* passes within a run.  A check is accepted when every earlier one has run to
\* its end; the second handler may start while the first still holds the record
\* of what it did.
IceNext ==
    \/ AllIdle /\ requests < MaxIceRequests /\ CR_Receive(1)
    \/ pc[1] = "done" /\ pc[2] = "idle" /\ requests < MaxIceRequests /\ CR_Receive(2)
    \/ \E p \in Procs : IceStep(p)

IceSpec == IceInit /\ [][IceNext]_vars

\* The hourly scheduler, the cron endpoint and the check that ends a relay all
\* call checkAndSendIcebreaker without waiting for one another: up to MaxProcs
\* checks are in flight and their steps interleave at the awaits.  Both
\* participants are registered, the period is the default one and the
\* conversation has been idle for one of ConcIdleAges days.
ConcIdleAges == {0, 4, 6, 10}

IceConcInit ==
    /\ storedConfig = writeConfig(
         [PristineDefaultConfig EXCEPT
            !.userA = RegisteredUser(1, "auto"),
            !.userB = SlotB("ru")])
    /\ contacted = <<1, 2>>
    /\ registering = <<1, 2>>
    /\ idsSeen = 2
    /\ activity \in {[seen |-> TRUE, age |-> a] : a \in ConcIdleAges}
    /\ DEFAULT_CONFIG = PristineDefaultConfig
    /\ prompts = [k \in PromptKeys |-> getDefaultPromptConfig]
    /\ lastMessageTraces = [i \in Ids |-> NoTraceInfo]
    /\ improvements = NoQuota
    /\ messageCount = 0
    /\ pairRelays = [k \in PromptKeys |-> 0]
    /\ ev = [p \in Procs |-> NoPass]
    /\ pc = [p \in Procs |-> "idle"]
    /\ loc = [p \in Procs |-> IdleLoc]
    /\ eff = [p \in Procs |-> NoEff]
    /\ requests = 0

IceConcNext ==
    \/ \E p \in Procs : requests < MaxIceConcRequests /\ CR_Receive(p)
    \/ \E p \in Procs : IceStep(p)

IceConcSpec == IceConcInit /\ [][IceConcNext]_vars

(* ------------------------- a reset in service ------------------------- *)
\* The bot in service, both users on English, two messages relayed so far and
\* no improvement made yet; the operator may reset, and identities 1 and 2
\* write /start, a text or a feedback comment.  Requests are handled one at a
\* time.
ResetInit == ServiceInit({"auto"}, {2}, {NoQuota})

ResetTexts == {"/start", "/feedback warmer", "hi"}
ResetMessages == [from : {1, 2}, text : ResetTexts, hint : {Undef}]

ResetAccept == AllIdle /\ requests < MaxResetRequests

ResetNext ==
    \/ \E m \in ResetMessages : ResetAccept /\ HM_Receive(1, m)
    \/ ResetAccept /\ RS_Receive(1)
    \/ RS_Write(1)
    \/ RS_Delete(1)
    \/ HM_Write(1)
    \/ FbStep(1)

ResetSpec == ResetInit /\ [][ResetNext]_vars

(* ---------------------- a store that may fail ------------------------- *)
\* The bot from its start with a trace store whose writes may fail: every
\* writeConfig of a registration, a settings save or a reset either succeeds or
\* fails.  Requests are handled one at a time.
FailTexts == {"/start", "hi"}
FailMessages == [from : {1, 2}, text : FailTexts, hint : {Undef}]
FailBodies == {[NoBody EXCEPT !.userBLanguage = "ru"]}

FailAccept == AllIdle /\ requests < MaxFailRequests

FailStep(p) ==
    \/ HM_Write(p)
    \/ HM_WriteFails(p)
    \/ HM_Reply(p)
    \/ HM_GetPrompt(p)
    \/ \E o \in ConcOutcomes : HM_Generate(p, o)
    \/ HM_Forward(p)
    \/ SC_Write(p)
    \/ SC_WriteFails(p)
    \/ RS_Write(p)
    \/ RS_WriteFails(p)
    \/ RS_Delete(p)
    \/ Ice_Read(p)
    \/ \E d \in 3..32 : Ice_Activity(p, d)
    \/ Return(p)

FailNext ==
    \/ \E m \in FailMessages : FailAccept /\ InOrder(m) /\ HM_Receive(1, m)
    \/ \E b \in FailBodies : FailAccept /\ SC_Receive(1, b)
    \/ FailAccept /\ RS_Receive(1)
    \/ FailStep(1)

FailSpec == Init /\ [][FailNext]_vars

(* ------------------- a store whose reads may fail --------------------- *)
\* The bot from its start with a trace store whose search may throw when a
\* message handler reads the Configuration; writes succeed.  Messages are
\* handled one at a time.
ReadFailMessages == [from : {1, 2}, text : FailTexts, hint : {Undef}]

ReadFailAccept == AllIdle /\ requests < MaxReadFailRequests

ReadFailStep(p) ==
    \/ HM_Write(p)
    \/ HM_Reply(p)
    \/ HM_GetPrompt(p)
    \/ \E o \in ConcOutcomes : HM_Generate(p, o)
    \/ HM_Forward(p)
    \/ Ice_Read(p)
    \/ \E d \in 3..32 : Ice_Activity(p, d)
    \/ Return(p)

ReadFailNext ==
    \/ \E m \in ReadFailMessages : ReadFailAccept /\ InOrder(m) /\ HM_Receive(1, m)
    \/ \E m \in ReadFailMessages : ReadFailAccept /\ InOrder(m) /\ HM_ReceiveReadFails(1, m)
    \/ ReadFailStep(1)

ReadFailSpec == Init /\ [][ReadFailNext]_vars

(* ------------------------ saving the period --------------------------- *)
\* The operator saves settings with an integer icebreakerPeriodDays from
\* PeriodInputs, or without one, and resets; one request at a time, from the
\* first start of the bot.
PeriodInputs == {0 - 1, 0, 1, 2, 3, 4, 29, 30, 31, 100}
PeriodBodies ==
    {[NoBody EXCEPT !.icebreakerPeriodDays = v, !.periodGiven = TRUE] : v \in PeriodInputs}
    \cup {[NoBody EXCEPT !.stylizationEnabled = "false"]}

PeriodAccept == AllIdle /\ requests < MaxPeriodRequests

PeriodNext ==
    \/ \E b \in PeriodBodies : PeriodAccept /\ SC_Receive(1, b)
    \/ PeriodAccept /\ RS_Receive(1)
    \/ SC_Write(1)
    \/ RS_Write(1)
    \/ RS_Delete(1)
    \/ Return(1)

PeriodSpec == Init /\ [][PeriodNext]_vars

(* -------------------- the scheduler, for ever -------------------------- *)
\* Both participants are registered and silent, the period is the shortest one
\* the settings accept and the last activity is more than period + 2 days old.
\* The local scheduler fires for ever, days pass (the age of the last activity
\* is counted up to MaxIdleDays), and a send to a participant may fail.
ShortestPeriod == 3

IceLiveInit ==
    /\ storedConfig = writeConfig(
         [PristineDefaultConfig EXCEPT
            !.userA = RegisteredUser(1, "auto"),
            !.userB = SlotB("ru"),
            !.icebreakerPeriodDays = ShortestPeriod])
    /\ contacted = <<1, 2>>
    /\ registering = <<1, 2>>
    /\ idsSeen = 2
    /\ activity = [seen |-> TRUE, age |-> ShortestPeriod + 3]
    /\ DEFAULT_CONFIG = PristineDefaultConfig
    /\ prompts = [k \in PromptKeys |-> getDefaultPromptConfig]
    /\ lastMessageTraces = [i \in Ids |-> NoTraceInfo]
    /\ improvements = NoQuota
    /\ messageCount = 0
    /\ pairRelays = [k \in PromptKeys |-> 0]
    /\ ev = [p \in Procs |-> NoPass]
    /\ pc = [p \in Procs |-> "idle"]
    /\ loc = [p \in Procs |-> IdleLoc]
    /\ eff = [p \in Procs |-> NoEff]
    /\ requests = 0

\* a step of the check in flight other than a successful send
CheckStep(p) ==
    \/ Ice_Read(p)
    \/ \E d \in IdleAges : Ice_Activity(p, d)
    \/ \E role \in {"A", "B"}, o \in ConcOutcomes : Ice_Generate(p, role, o)
    \/ \E role \in {"A", "B"} : Ice_SendFails(p, role)
    \/ Return(p)

IceLiveNext ==
    \/ SchedulerFires(1)
    \/ CheckStep(1)
    \/ \E role \in {"A", "B"} : Ice_Send(1, role)
    \/ Tick

\* The timer fires again whenever the last check has returned, a check in
\* flight takes its next step, and days pass.  A send is either carried out or
\* fails, and a failure is an individual one: a send attempted again and again
\* is carried out in the end.
IceFairSpec ==
    /\ IceLiveInit /\ [][IceLiveNext]_vars
    /\ WF_vars(SchedulerFires(1))
    /\ WF_vars(CheckStep(1) \/ \E role \in {"A", "B"} : Ice_Send(1, role))
    /\ WF_vars(Tick)
    /\ \A role \in {"A", "B"} : SF_vars(Ice_Send(1, role))

(* ------------------------------- properties --------------------------- *)
Handling(p) == loc[p].req = "message"
Sends(p) == eff[p].sends
Calls(p) == eff[p].calls
Traces(p) == eff[p].traces

\* a text message that is neither /start nor a /feedback command
IsPlainText(text) == IsRegisteringText(text) /\ ~IsStart(text)

\* the sender's role in the Configuration as handler p read it
RoleRead(p) == identifySender(loc[p].from, loc[p].configRead)
\* the identity stored opposite to the sender in the Configuration as read
CounterpartRead(p) == UserOf(loc[p].configRead, OtherRole(RoleRead(p))).telegramId
Full(config) == config.userA.telegramId # NoId /\ config.userB.telegramId # NoId

\* handler p has passed its forward / its reply
AfterForward(p) == pc[p] \in {"iceRead", "iceActivity", "done"}
RelaySend(p) == [to |-> CounterpartRead(p), key |-> "relay", text |-> loc[p].text]
ReplySend(p, key) == [to |-> loc[p].from, key |-> key, text |-> ""]

\* p relays: a plain text from a stored identity whose counterpart is stored
RelayCase(p) ==
    Handling(p) /\ IsPlainText(loc[p].text) /\ RoleRead(p) # NoRole /\ CounterpartRead(p) # NoId

SlotsHold(seq) ==
    /\ Len(seq) >= 1 => readConfig.userA.telegramId = seq[1]
    /\ Len(seq) >= 2 => readConfig.userB.telegramId = seq[2]

C2_RelayDestination ==
    \A p \in Procs : Handling(p) =>
        \A i \in 1..Len(Sends(p)) : Sends(p)[i].key = "relay" =>
            /\ RoleRead(p) # NoRole
            /\ Sends(p)[i].to = CounterpartRead(p)
            /\ Sends(p)[i].to # loc[p].from
            /\ Sends(p)[i].to # NoId

\* a relay delivered after a concurrent reset has emptied the stored Configuration
C2_Witness ==
    \E p \in Procs :
        /\ Handling(p) /\ Sends(p) = <<RelaySend(p)>>
        /\ readConfig.userA.telegramId = NoId /\ readConfig.userB.telegramId = NoId

\* the Capability Client threw while handler p transformed its message
Threw(p) ==
    \E i \in 1..Len(Calls(p)) : Calls(p)[i].purpose = "stylize" /\ Calls(p)[i].threw

\* C3: when the Capability Client throws during the transform, the Capability
\* Client has been called exactly once, exactly one trace is recorded and it has
\* success = false, the only message sent is the original text to the
\* recipient, and nothing is sent to the sender.
C3_FailureFallback ==
    \A p \in Procs : Handling(p) /\ Threw(p) =>
        /\ Len(Calls(p)) = 1
        /\ Len(Traces(p)) = 1 /\ Traces(p)[1].success = FALSE
        /\ loc[p].processedText = loc[p].text
        /\ \A i \in 1..Len(Sends(p)) : Sends(p)[i].to # loc[p].from
        /\ pc[p] = "forward" => Sends(p) = <<>>
        /\ AfterForward(p) => Sends(p) = <<RelaySend(p)>>
        /\ pc[p] \in {"forward", "iceRead", "iceActivity", "done"}

C3_Witness ==
    \E p \in Procs : Handling(p) /\ Threw(p) /\ pc[p] = "done" /\ Sends(p) = <<RelaySend(p)>>

\* the resolved languages of sender and recipient, after the sender's
\* languageCode has been refreshed from the message
SenderLanguage(p) == ResolveLanguage(UserOf(loc[p].config, RoleRead(p)))
RecipientLanguage(p) == ResolveLanguage(UserOf(loc[p].config, OtherRole(RoleRead(p))))
StylizationEnabled(p) == loc[p].configRead.stylizationEnabled # FALSE

\* C4: a relay with stylizationEnabled false and equal resolved languages
\* delivers exactly the sender's text, calls the Capability Client not at all
\* and records exactly one trace, with style 'none' and success = true.
C4_PassThrough ==
    \A p \in Procs :
        RelayCase(p) /\ ~StylizationEnabled(p) /\ SenderLanguage(p) = RecipientLanguage(p) =>
            /\ Calls(p) = <<>>
            /\ Len(Traces(p)) = 1
            /\ Traces(p)[1].style = "none" /\ Traces(p)[1].success = TRUE
            /\ pc[p] = "forward" => Sends(p) = <<>>
            /\ AfterForward(p) => Sends(p) = <<RelaySend(p)>>
            /\ pc[p] \in {"forward", "iceRead", "iceActivity", "done"}

C4_Witness ==
    \E p \in Procs :
        /\ RelayCase(p) /\ ~StylizationEnabled(p) /\ SenderLanguage(p) = RecipientLanguage(p)
        /\ pc[p] = "done" /\ Sends(p) = <<RelaySend(p)>>
        /\ loc[p].configRead.style = "custom"

\* C5: a relay calls the Capability Client exactly when stylization is enabled
\* or the resolved languages differ, and at most once; with stylization
\* enabled the call carries the configured style and custom style and the
\* recipient's language; with stylization disabled it carries style 'neutral'
\* and an empty custom style, whatever is configured.
C5_ModeSelection ==
    \A p \in Procs : RelayCase(p) =>
        LET transform == StylizationEnabled(p) \/ SenderLanguage(p) # RecipientLanguage(p)
        IN  /\ Len(Calls(p)) <= 1
            /\ ~transform => Calls(p) = <<>>
            /\ transform /\ pc[p] \in {"forward", "iceRead", "iceActivity", "done"}
                   => Len(Calls(p)) = 1
            /\ \A i \in 1..Len(Calls(p)) :
                   /\ Calls(p)[i].purpose = "stylize"
                   /\ Calls(p)[i].language = RecipientLanguage(p)
                   /\ StylizationEnabled(p) =>
                          /\ Calls(p)[i].style = loc[p].configRead.style
                          /\ Calls(p)[i].customStyle = loc[p].configRead.customStyle
                   /\ ~StylizationEnabled(p) =>
                          /\ Calls(p)[i].style = "neutral"
                          /\ Calls(p)[i].customStyle = ""

\* translation only while a custom style is configured
C5_Witness ==
    \E p \in Procs :
        /\ RelayCase(p) /\ ~StylizationEnabled(p) /\ Len(Calls(p)) = 1
        /\ loc[p].configRead.style = "custom" /\ loc[p].configRead.customStyle = "pirate"
        /\ Calls(p)[1].style = "neutral" /\ pc[p] = "done"

\* stylization enabled, equal languages: the configured style is passed
C5_WitnessEnabled ==
    \E p \in Procs :
        /\ RelayCase(p) /\ StylizationEnabled(p) /\ SenderLanguage(p) = RecipientLanguage(p)
        /\ Len(Calls(p)) = 1 /\ Calls(p)[1].style = "custom" /\ pc[p] = "done"

\* p's sender is stored and the opposite slot is empty in the Configuration read
AloneCase(p) == Handling(p) /\ RoleRead(p) # NoRole /\ CounterpartRead(p) = NoId

\* the sender is answered `key` and nothing else happens
OnlyReply(p, key) ==
    /\ Calls(p) = <<>> /\ Traces(p) = <<>> /\ eff[p].writes = 0
    /\ pc[p] \in {"reply", "done"}
    /\ pc[p] = "reply" => Sends(p) = <<>>
    /\ pc[p] = "done" => Sends(p) = <<ReplySend(p, key)>>

\* C6 as stated: any text message (commands included) from a stored sender
\* whose counterpart slot is empty is answered 'other user not registered'
\* and nothing else happens.
C6_AnyTextAlone ==
    \A p \in Procs : AloneCase(p) /\ loc[p].text # NoText =>
        OnlyReply(p, "otherUserNotRegistered")

\* C6: a text message that is neither /start nor a /feedback command, from a
\* stored sender whose counterpart slot is empty, is answered 'other user not
\* registered' and nothing else happens: no Capability Client call, no trace,
\* no forward, no Configuration write.
C6_NoCounterpart ==
    \A p \in Procs : AloneCase(p) /\ IsPlainText(loc[p].text) =>
        OnlyReply(p, "otherUserNotRegistered")

C6_Witness ==
    \E p \in Procs :
        /\ AloneCase(p) /\ IsPlainText(loc[p].text) /\ pc[p] = "done"
        /\ Sends(p) = <<ReplySend(p, "otherUserNotRegistered")>>

\* a text message from an identity stored in neither slot while both are filled
ThirdPartyCase(p) ==
    Handling(p) /\ loc[p].text # NoText /\ Full(loc[p].configRead) /\ RoleRead(p) = NoRole

\* C7: while a /start or text message from an unknown identity is handled with
\* both slots filled, the handler writes nothing, the stored Configuration is
\* the one it read, and nothing is sent to anyone but the sender.
C7_ThirdPartyFrame ==
    \A p \in Procs : ThirdPartyCase(p) =>
        /\ eff[p].writes = 0
        /\ storedConfig.exists /\ storedConfig.input = loc[p].configRead
        /\ \A i \in 1..Len(Sends(p)) :
               Sends(p)[i].to = loc[p].from /\ Sends(p)[i].key # "relay"
        /\ Calls(p) = <<>>

C7_Witness ==
    \E p \in Procs : ThirdPartyCase(p) /\ IsStart(loc[p].text) /\ pc[p] = "done"

C7_WitnessText ==
    \E p \in Procs : ThirdPartyCase(p) /\ IsPlainText(loc[p].text) /\ pc[p] = "done"

KnownStartCase(p) == Handling(p) /\ IsStart(loc[p].text) /\ RoleRead(p) # NoRole

\* C9: a /start from an identity already stored in a slot is answered with the
\* welcome of that slot's role and with nothing else, and writes nothing: the
\* stored Configuration stays the one the handler read.
C9_StartIdempotent ==
    \A p \in Procs : KnownStartCase(p) =>
        /\ OnlyReply(p, WelcomeKey(RoleRead(p)))
        /\ storedConfig.exists /\ storedConfig.input = loc[p].configRead

\* a repeated /start whose language hint differs from the stored languageCode
C9_Witness ==
    \E p \in Procs :
        /\ KnownStartCase(p) /\ pc[p] = "done" /\ requests >= 3
        /\ loc[p].config # loc[p].configRead
        /\ Sends(p) = <<ReplySend(p, WelcomeKey(RoleRead(p)))>>

\* a step of POST /api/config/reset that touches the store
ResetStep == \E p \in Procs : pc[p] \in {"resetWrite", "resetDelete"} /\ pc'[p] # pc[p]

SlotKept(role) ==
    UserOf(readConfig, role).telegramId # NoId =>
        UserOf(readConfig, role)'.telegramId = UserOf(readConfig, role).telegramId

\* C10: under any interleaving of message handlers and settings saves, a slot
\* of the stored Configuration that holds an identity holds the same identity
\* after every step that is not a step of an explicit reset.
C10_SlotKeptUntilReset == [][ResetStep \/ (SlotKept("A") /\ SlotKept("B"))]_vars

(* ---------------------- feedback controller: claims -------------------- *)
\* handler p is a user-comment submission that reached processFeedbackComment
Submission(p) == Handling(p) /\ loc[p].quotaChecked
\* an evaluation pass started by handler p's stylizeMessage is in flight or has ended
PassStarted(p) == ev[p].pc # "idle"
\* the quota was exhausted when the submission / the pass checked it
ExhaustedAtCheck(quotaSeen) == quotaSeen.count >= MAX_IMPROVEMENTS_PER_DAY
PromptsImproved == \E k \in PromptKeys : prompts[k].improvementCount > 0

C11_WitnessPass ==
    /\ PromptsImproved
    /\ PassStarted(1) /\ ExhaustedAtCheck(ev[1].quotaSeen) /\ ev[1].result = "limit_reached"

FreshQuota == [count |-> 0, date |-> "today"]
\* the steps in which canImprove() is called: by a submission, at the start of
\* a pass, and at the head of the pass's loop when a metric is left
SubmissionChecks(p) == ~loc[p].quotaChecked /\ loc'[p].quotaChecked
PassStartChecks(p) == ev[p].pc = "idle" /\ ev'[p].pc # "idle"
LoopChecks(p) ==
    /\ ev[p].pc \in {"evGetPrompt", "evGenerate"} /\ ev'[p] # ev[p]
    /\ ev'[p].pc \in {"evGenerate", "evUpdateRead"}
    /\ ev'[p].next <= Len(ev'[p].lowMetrics)

\* C12: a quota check that finds the stored date to be another day than today
\* sets the count to zero and the date to today before it decides, and so
\* lets the improvement proceed whatever the count was.
C12_RolloverResets ==
    [][\A p \in Procs :
         improvements.date # "today" =>
           /\ SubmissionChecks(p) => improvements' = FreshQuota /\ pc'[p] = "fbGetPrompt"
           /\ PassStartChecks(p) => improvements' = FreshQuota /\ ev'[p].pc = "evFetch"
           /\ LoopChecks(p) => improvements' = FreshQuota /\ ev'[p].pc = "evGenerate"]_vars

\* an improvement was made in this run, midnight passed, and the next
\* submission found the count at zero
C12_Witness ==
    /\ PromptsImproved
    /\ Submission(1) /\ loc[1].quotaSeen = FreshQuota /\ pc[1] = "fbGetPrompt"

\* midnight passed during a pass, whose loop then went on with a fresh quota
C12_WitnessLoop ==
    /\ ev[1].pc = "evGenerate" /\ ev[1].next = 2 /\ ev[1].recorded = 1
    /\ improvements = FreshQuota

\* C13 as stated: under any interleaving of concurrent submissions and
\* evaluation passes, the improvements recorded within one day never exceed
\* the daily maximum.
C13_QuotaNeverExceeded == improvements.count <= MAX_IMPROVEMENTS_PER_DAY

\* processFeedbackComment has returned to handler p
Returned(p) == Submission(p) /\ pc[p] \in {"reply", "done"}
\* the stored record of the pair the submission is about
RatedRecord(p) == prompts[<<loc[p].fbStyle, loc[p].fbLanguage>>]
\* stored state is as the submission found it: the record as read, the quota as checked
NothingMutated(p) ==
    /\ eff[p].promptWrites = 0
    /\ RatedRecord(p) = loc[p].promptConfig
    /\ improvements = loc[p].quotaSeen
\* the Capability Client threw, or its output was the JSON value null
GenerationFails == {"throws", "null"}

\* C14 as stated: when the Capability Client fails or its output cannot be
\* parsed as an {issue, improvement} object (it throws, gives null, or gives
\* text that is no JSON), the submission reports generation failure and the
\* stored record and the quota are unchanged.
C14_UnparsableFails ==
    \A p \in Procs :
      (Returned(p) /\ loc[p].outcome \in GenerationFails \cup {"unparsable"}) =>
        loc[p].result = "generation_failed" /\ NothingMutated(p)

\* C14: when the Capability Client throws or its output is the JSON value
\* null, the submission returns at once with generation_failed, and the stored
\* record (prompt, comments, improvementCount) and the quota are as the
\* submission found them; output that is no JSON is not a failure: the comment
\* itself becomes the improvement.
C14_FailureLeavesState ==
    \A p \in Procs :
      /\ (Submission(p) /\ loc[p].outcome \in GenerationFails) =>
           Returned(p) /\ loc[p].result = "generation_failed" /\ NothingMutated(p)
      /\ (Returned(p) /\ loc[p].outcome = "unparsable") =>
           /\ loc[p].result = "improved"
           /\ RatedRecord(p).prompt.patches # <<>>
           /\ RatedRecord(p).prompt.patches[Len(RatedRecord(p).prompt.patches)].action
                = loc[p].comment

C14_Witness ==
    /\ Returned(1) /\ loc[1].outcome = "throws" /\ Calls(1) # <<>>
    /\ loc[1].reply = "feedbackThanks" /\ pc[1] = "done"

\* the stored record of the pair a pass is about
PassRecord(p) == prompts[<<ev[p].style, ev[p].language>>]
\* pass p has gone through its loop without recording an improvement
PassWithoutImprovement(p) ==
    ev[p].pc \in {"evUpdateRead", "evUpdateWrite", "done"} /\ ev[p].lowMetrics # <<>>
    /\ ev[p].recorded = 0

\* C15 as stated: a pass in which no improvement is produced for any
\* below-threshold metric leaves the stored record of its pair unchanged: the
\* prompt, improvementCount and lastImprovement are as the pass read them.
C15_FruitlessPassWritesNothing ==
    \A p \in Procs :
      PassWithoutImprovement(p) =>
        ev[p].promptWrites = 0 /\ PassRecord(p) = ev[p].promptConfig

\* prompt `after` is prompt `before` with exactly n sections appended, each
\* carrying the trigger source and a timestamp
Extends(after, before, n, source) ==
    /\ after.set /\ after.base = before.base
    /\ Len(after.patches) = Len(before.patches) + n
    /\ SubSeq(after.patches, 1, Len(before.patches)) = before.patches
    /\ \A i \in (Len(before.patches) + 1)..Len(after.patches) :
         after.patches[i].source = source /\ after.patches[i].timestamp = "now"

\* C16 as stated, one improvement at a time: each improvement reported as
\* successful leaves the stored prompt equal to the prompt before it (the base
\* template when none was stored) followed by one more patch section with its
\* source and timestamp, so that N successes leave the base template followed
\* by exactly N sections.
C16_SuccessAppendsSection ==
    \A p \in Procs :
      /\ (Returned(p) /\ loc[p].result = "improved") =>
           Extends(RatedRecord(p).prompt,
                   CurrentPrompt(loc[p].promptConfig, loc[p].fbStyle, loc[p].fbLanguage),
                   1, "user feedback")
      /\ (ev[p].pc = "done" /\ ev[p].result = "saved") =>
           Extends(PassRecord(p).prompt,
                   CurrentPrompt(ev[p].promptConfig, ev[p].style, ev[p].language),
                   ev[p].recorded, "evaluation")

IsPrefix(s, t) == Len(s) <= Len(t) /\ SubSeq(t, 1, Len(s)) = s

\* C17 as stated: under any interleaving of concurrent improvements, every
\* value written to a stored prompt has the value stored before it as a
\* prefix: the base template is kept and no patch section is lost.
C17_AppendOnly ==
    [][\A k \in PromptKeys :
         prompts[k].prompt.set =>
           /\ prompts'[k].prompt.set
           /\ prompts'[k].prompt.base = prompts[k].prompt.base
           /\ IsPrefix(prompts[k].prompt.patches, prompts'[k].prompt.patches)]_vars

\* C18 as stated, improvements handled one at a time: when no improvement is
\* in flight every stored record's improvementCount equals the number of
\* patch sections of its prompt.
C18_CountEqualsSections ==
    (AllIdle /\ NoPassRunning) =>
      \A k \in PromptKeys : prompts[k].improvementCount = Len(prompts[k].prompt.patches)

\* handler p's stylizeMessage gets the Capability Client's answer in this step
RelayStep(p) == pc[p] = "generate" /\ pc'[p] = "forward"
\* the pair handler p hands to stylizeMessage
PairOf(p) == <<loc[p].style, loc[p].recipientLanguage>>

\* C19 as stated: a pass for a pair starts with exactly every
\* SCORE_CHECK_INTERVAL-th message relayed with that pair.
C19_EveryKthOfPair ==
    [][\A p \in Procs :
         RelayStep(p) =>
           (PassStartChecks(p) <=> pairRelays'[PairOf(p)] % SCORE_CHECK_INTERVAL = 0)]_vars

\* C19: one process-wide counter counts the messages stylizeMessage has
\* transformed without an exception, whatever their pair; a relay whose
\* Capability Client call throws is not counted.  The pass starts with exactly
\* every SCORE_CHECK_INTERVAL-th counted message, for the pair of that message.
C19_EveryKthOverall ==
    [][/\ \A p \in Procs :
            RelayStep(p) =>
              /\ messageCount' = IF loc'[p].traced THEN messageCount + 1 ELSE messageCount
              /\ PassStartChecks(p) <=>
                   (loc'[p].traced /\ messageCount' % SCORE_CHECK_INTERVAL = 0)
              /\ PassStartChecks(p) =>
                   <<ev'[p].style, ev'[p].language>> = PairOf(p)
       /\ (\A p \in Procs : ~RelayStep(p)) =>
            /\ messageCount' = messageCount
            /\ \A p \in Procs : ~PassStartChecks(p)]_vars

\* a pass runs for a pair of which only two messages were relayed: the tenth
\* message overall
C19_Witness ==
    /\ PassStarted(1) /\ messageCount = SCORE_CHECK_INTERVAL
    /\ pairRelays[<<ev[1].style, ev[1].language>>] = 2

\* the evaluation pass started by handler p takes a step of its own
PassMoves(p) == ev'[p] # ev[p] /\ ~RelayStep(p)
\* what handler p's stylizeMessage returned, as its trace recorded it
Stylized(p) == Traces(p)[Len(Traces(p))].result
PassUnfinished(p) == ev[p].pc \notin {"idle", "done"}

\* in every step: the forward is possible as soon as stylizeMessage has
\* returned, whatever the state of the pass; the steps of the pass, its
\* rejection included, change nothing of the handler; the text forwarded is
\* the text stylizeMessage returned
ForwardDecoupled ==
    [][\A p \in Procs :
         /\ (pc[p] = "forward") => ENABLED HM_Forward(p)
         /\ PassMoves(p) => pc'[p] = pc[p] /\ loc'[p] = loc[p] /\ eff'[p] = eff[p]
         /\ (pc[p] = "forward" /\ pc'[p] # "forward") =>
              Sends(p)' = Append(Sends(p), [to |-> loc[p].recipientId, key |-> "relay",
                                            text |-> Stylized(p)])]_vars

\* C20: the relay forwards the processed message without waiting for the
\* evaluation pass it started: the steps of the pass, its rejection included,
\* neither disable the forward nor change the handler or the text it sends,
\* and the message is forwarded even if the pass never takes another step.
C20_ForwardNotDelayed ==
    /\ ForwardDecoupled
    /\ \A p \in Procs : (pc[p] = "forward") ~> AfterForward(p)

\* the message was forwarded while the pass its relay started had not finished
C20_Witness ==
    /\ AfterForward(1) /\ Sends(1) # <<>> /\ Sends(1)[Len(Sends(1))].key = "relay"
    /\ ev[1].pc = "evFetch"

\* the message was forwarded and the pass its relay started was rejected
C20_WitnessError ==
    /\ Sends(1) # <<>> /\ Sends(1)[Len(Sends(1))].key = "relay"
    /\ ev[1].result = "error"

(* ---------------------------- due check: claims ------------------------ *)
\* the due check of handler p compares the idle time with the rolled interval
ActivityStep(p) == pc[p] = "iceActivity" /\ pc'[p] # "iceActivity"
\* config.icebreakerPeriodDays as the due check read it
PeriodRead(p) == loc[p].iceConfig.icebreakerPeriodDays
FoundDue(p) == pc[p] \in {"iceGenA", "iceSendA", "iceGenB", "iceSendB"}

\* C21: for every period in 3..30 a due check with recorded activity returns
\* without sending when the idle time is below max(3, period - 2) days (so
\* also when it is below period - 2) and finds the conversation due when it is
\* above period + 2 days: the interval rolled lies in [max(3, period - 2), period + 2].
C21_DueWindow ==
    [][\A p \in Procs :
         (ActivityStep(p) /\ activity.seen) =>
           /\ PeriodRead(p) \in IcePeriods
           /\ activity.age < Max({3, PeriodRead(p) - 2}) => pc'[p] = "done"
           /\ activity.age > PeriodRead(p) + 2 => pc'[p] = "iceGenA"]_vars

\* with the longest period, a check finds the conversation due two days early
C21_Witness ==
    /\ pc[1] = "iceGenA" /\ PeriodRead(1) = 30 /\ activity.age = 28

\* with the longest period, a check at 32 days finds it not yet due
C21_WitnessLate ==
    /\ pc[1] = "done" /\ loc[1].req = "cron" /\ PeriodRead(1) = 30 /\ activity.age = 31
    /\ Sends(1) = <<>>

\* handler p is a due check of the scheduler or the cron endpoint that has ended
CheckEnded(p) == loc[p].req = "cron" /\ pc[p] = "done"
\* a participant's explicit language preference, or the cached locale under auto
PreferredLanguage(user) ==
    IF user.language # "auto" THEN user.language
    ELSE IF user.languageCode = Undef THEN "en" ELSE user.languageCode
IcebreakerSend(p, i, role) ==
    /\ Sends(p)[i].to = UserOf(loc[p].iceConfig, role).telegramId
    /\ Sends(p)[i].key = "icebreaker"
    /\ Sends(p)[i].text = Traces(p)[i].result
    /\ Traces(p)[i].name = "generate_icebreaker"
    /\ Traces(p)[i].language = PreferredLanguage(UserOf(loc[p].iceConfig, role))
    /\ Calls(p)[i].language = PreferredLanguage(UserOf(loc[p].iceConfig, role))

C22_WitnessNoActivity == CheckEnded(1) /\ ~activity.seen

\* the due check of handler q has ended after sending re-engagement messages
CheckSent(q) == CheckEnded(q) /\ Sends(q) # <<>>
\* handler p runs a due check accepted after the check of handler q had ended
FurtherCheck(p, q) == p # q /\ CheckSent(q) /\ loc[p].req = "cron"

IcebreakersTo(p, i) ==
    Cardinality({n \in 1..Len(Sends(p)) : Sends(p)[n].to = i /\ Sends(p)[n].key = "icebreaker"})

\* C24: due checks in flight at the same time send each participant at most
\* one re-engagement message for the same idle period (no day passes and no
\* message is relayed within a run, so every check of a run sees one idle period).
C24_NoDoubleSend ==
    \A i \in Ids : IcebreakersTo(1, i) + IcebreakersTo(2, i) <= 1

(* ------------------------ languages: claims --------------------------- *)
\* the language a participant is to be addressed in: the free-text name under
\* 'custom', else the explicit preference or, under auto, the cached locale
NamedLanguage(user) ==
    IF user.language = "custom" THEN user.customLanguage ELSE PreferredLanguage(user)
\* the participant the message of handler p is relayed to
RecipientRead(p) == UserOf(loc[p].config, OtherRole(RoleRead(p)))

\* C25: every transform of a relayed message is requested in the recipient's
\* language, which under the preference 'custom' is the stored free-text
\* language name and not the literal 'custom'.
C25_CustomLanguageName ==
    \A p \in Procs : Handling(p) =>
        \A i \in 1..Len(Calls(p)) :
            Calls(p)[i].purpose = "stylize" =>
                Calls(p)[i].language = NamedLanguage(RecipientRead(p))

\* the sender of the message of handler p, as stored when the message was read
\* and as stored now
SenderRead(p) == UserOf(loc[p].configRead, RoleRead(p))
SenderStored(p) == UserOf(readConfig, RoleRead(p))

\* C26: when a relay from a participant with the preference 'auto' has been
\* handled, the locale cached for that participant in the Configuration, which
\* the next relay to that participant resolves the language from, is the locale
\* hint of that message; under an explicit preference the cached locale is the
\* one stored before.
C26_HintCached ==
    \A p \in Procs :
      (RelayCase(p) /\ pc[p] = "done") =>
        /\ SenderRead(p).language = "auto" =>
             SenderStored(p).languageCode = LanguageCodeOf(loc[p].hint)
        /\ SenderRead(p).language # "auto" =>
             SenderStored(p).languageCode = SenderRead(p).languageCode

(* ------------------------ feedback pair: claims ----------------------- *)
\* handler p has delivered its relayed message
Delivered(p) == RelayCase(p) /\ AfterForward(p) /\ Sends(p) = <<RelaySend(p)>>
\* the (style, language) pair the delivered message of handler p was produced
\* with, as its trace records it
ProducedWith(p) == <<Traces(p)[1].style, Traces(p)[1].language>>
\* the pair a feedback comment of identity i would improve
FeedbackPair(i) == <<lastMessageTraces[i].style, lastMessageTraces[i].language>>

\* C27: once a relayed message has been delivered, in any mode and also after
\* the failure fallback, the pair a feedback comment of its recipient improves
\* is the (style, language) pair that message was produced with.
C27_FeedbackPairOfLastMessage ==
    \A p \in Procs :
      Delivered(p) =>
        /\ Len(Traces(p)) = 1
        /\ lastMessageTraces[CounterpartRead(p)].set
        /\ FeedbackPair(CounterpartRead(p)) = ProducedWith(p)

(* ----------------------------- reset: claims --------------------------- *)
\* the reset request of handler p has been answered
ResetDone(p) == loc[p].req = "reset" /\ pc[p] = "done"
NoPromptRecord == \A k \in PromptKeys : prompts[k] = getDefaultPromptConfig

\* C28: when a reset has completed, the Configuration read back is the default
\* one (both slots empty, both language preferences auto, style friendly,
\* stylization enabled, period 7), no PromptRecord exists and no relay trace
\* remains.
C28_ResetRestoresDefaults ==
    \A p \in Procs :
      ResetDone(p) =>
        /\ readConfig = PristineDefaultConfig
        /\ NoPromptRecord
        /\ ~activity.seen

\* handler p handles a feedback comment of the only identity that has
\* registered since the reset: no message can have been relayed to it since
FeedbackAfterReset(p) ==
    /\ Handling(p) /\ loc[p].text # NoText /\ IsFeedbackCommand(loc[p].text)
    /\ FeedbackComment(loc[p].text) # ""
    /\ registering = <<loc[p].from>>
    /\ RoleRead(p) # NoRole

\* C29: a feedback comment from a participant who has registered again after a
\* reset and has received no message since is answered 'no message to rate'
\* and no PromptRecord is changed.
C29_ResetClearsFeedback ==
    \A p \in Procs :
      FeedbackAfterReset(p) =>
        /\ loc[p].reply = "noMessageToRate"
        /\ pc[p] \in {"reply", "iceRead", "iceActivity", "done"}
        /\ NoPromptRecord

(* ------------------------- store failures: claims --------------------- *)
\* handler p has answered a settings save or a reset
Answered(p) == loc[p].req \in {"save", "reset"} /\ pc[p] = "done"
\* the writeConfig of handler p has failed: the handler is past it and the
\* Configuration was not written
WriteFailed(p) == eff[p].writes = 0
\* handler p handles a message that registers its sender and has ended
Registered(p) == Handling(p) /\ loc[p].next = "write" /\ pc[p] = "done"

\* C30: a settings save or reset whose writeConfig failed is answered with a
\* failure, and a registration whose writeConfig failed still sends its
\* welcome reply and nothing else.
C30_WriteFailureReported ==
    \A p \in Procs :
      /\ (Answered(p) /\ WriteFailed(p)) => loc[p].reply = "failure"
      /\ (Registered(p) /\ WriteFailed(p)) =>
           /\ loc[p].reply \in {"welcomeUserA", "welcomeUserB"}
           /\ Sends(p) = <<ReplySend(p, loc[p].reply)>>

(* ------------------------- persistence: claims ------------------------ *)
\* the i-th trace handler p has written to the trace store is that of a relay
RelayTrace(p, i) == Handling(p) /\ Traces(p)[i].name = "stylize_message"

\* C31: no trace written for a relayed message holds the original text of
\* the message: it holds the transformed text, the sender role and no
\* original_message.
C31_OriginalNotPersisted ==
    \A p \in Procs :
      \A i \in 1..Len(Traces(p)) :
        RelayTrace(p, i) =>
          /\ Traces(p)[i].original_message = ""
          /\ Traces(p)[i].result = loc[p].processedText
          /\ Traces(p)[i].user_role = RoleRead(p)

(* --------------------------- the period: claims ----------------------- *)
\* handler p has answered a settings save
Saved(p) == loc[p].req = "save" /\ pc[p] = "done"
StoredPeriod == readConfig.icebreakerPeriodDays
\* the period a save is to store for the value v: 3 below 3, 30 above 30
PeriodInDomain(v) == IF v < 3 THEN 3 ELSE IF v > 30 THEN 30 ELSE v
PeriodKept(p) == StoredPeriod = loc[p].configRead.icebreakerPeriodDays

\* C32 (as stated): the stored period is an integer in 3..30; a save with a
\* value below 3 stores 3, with a value above 30 stores 30, with another value
\* stores it, and a save without a value leaves the stored period unchanged.
C32_PeriodClamped ==
    /\ StoredPeriod \in 3..30
    /\ \A p \in Procs :
         Saved(p) =>
           IF loc[p].body.periodGiven
           THEN StoredPeriod = PeriodInDomain(loc[p].body.icebreakerPeriodDays)
           ELSE PeriodKept(p)

\* C32 (amended): the same, but a save with the value 0 leaves the stored
\* period unchanged, like a save without a value.
C32_PeriodClampedButZero ==
    /\ StoredPeriod \in 3..30
    /\ \A p \in Procs :
         Saved(p) =>
           IF loc[p].body.periodGiven /\ loc[p].body.icebreakerPeriodDays # 0
           THEN StoredPeriod = PeriodInDomain(loc[p].body.icebreakerPeriodDays)
           ELSE PeriodKept(p)

\* a value above 30 has been saved over a stored 29
C32_Witness ==
    /\ Saved(1) /\ loc[1].body.periodGiven /\ loc[1].body.icebreakerPeriodDays = 100
    /\ loc[1].configRead.icebreakerPeriodDays = 29 /\ StoredPeriod = 30

\* the value 0 has been saved over a stored 4
C32_WitnessZero ==
    /\ Saved(1) /\ loc[1].body.periodGiven /\ loc[1].body.icebreakerPeriodDays = 0
    /\ loc[1].configRead.icebreakerPeriodDays = 4 /\ StoredPeriod = 4

(* --------------------------- the quota: claims ------------------------ *)
\* the pair the feedback comment of handler p is about
CommentPair(p) == <<loc[p].fbStyle, loc[p].fbLanguage>>
\* the comment of handler p was refused because the daily limit is reached
Refused(p) == Handling(p) /\ loc[p].result = "limit_reached"
\* the record of pair k has been improved MAX_IMPROVEMENTS_PER_DAY times
PairQuotaReached(k) == prompts[k].improvementCount >= MAX_IMPROVEMENTS_PER_DAY
\* a pair other than k has been improved in this run
ImprovedElsewhere(k) == \E other \in PromptKeys \ {k} : prompts[other].improvementCount > 0

\* C33: the daily maximum is counted per (style, language) pair: when another
\* pair has been improved up to the limit, a feedback comment is refused with
\* 'limit reached' only if its own pair has had the maximum of improvements.
C33_QuotaPerPair ==
    \A p \in Procs :
      (Refused(p) /\ ImprovedElsewhere(CommentPair(p))) => PairQuotaReached(CommentPair(p))

(* ----------------------- the prompt used: claims ---------------------- *)
\* handler p calls the Capability Client for its transform in this step
TransformStep(p) == pc[p] = "generate" /\ pc'[p] = "forward"
\* the instructions of the call that step makes
InstructionsSent(p) == eff'[p].calls[Len(eff'[p].calls)].prompt
\* the base template for the style, custom style text and language of handler p
BaseTemplate(p) ==
    [set |-> TRUE,
     base |-> generateBasePrompt(loc[p].style, loc[p].customStyle, loc[p].recipientLanguage),
     patches |-> <<>>]
Improved(k) == prompts[k].improvementCount > 0

C34_WitnessBase ==
    \E p \in Procs :
      /\ Handling(p) /\ pc[p] = "forward" /\ Len(Calls(p)) = 1
      /\ prompts[PairOf(p)] = getDefaultPromptConfig
      /\ Calls(p)[1].prompt.patches = <<>>

(* ------------------------- the cron answer: claims --------------------- *)
\* the answer of the due check of handler p says the icebreakers were sent
SaysSent(p) == loc[p].reply = "sent"

\* C35: the result of a scheduled due check says 'sent' exactly when the check
\* has sent a re-engagement message, and not when the conversation was not
\* due or had no recorded activity.
C35_SentReportedTruthfully ==
    \A p \in Procs : CheckEnded(p) => (SaysSent(p) <=> Sends(p) # <<>>)

(* ------------------------ the scheduler: claims ----------------------- *)
\* both participants are registered and the last recorded activity is more
\* than period + 2 days old
LongIdle ==
    /\ Full(readConfig)
    /\ activity.seen /\ activity.age > readConfig.icebreakerPeriodDays + 2
\* a re-engagement message has just been sent to the participant of the role
ReEngaged(role) ==
    \E p \in Procs : IcebreakersTo(p, UserOf(readConfig, role).telegramId) > 0

C36_WitnessGeneration ==
    /\ CheckEnded(1) /\ Len(Calls(1)) = 2 /\ Calls(1)[1].threw
    /\ IcebreakersTo(1, 1) = 1 /\ IcebreakersTo(1, 2) = 1

(* --------------------------- the slots: claims ------------------------ *)
\* the two slots of a Configuration do not hold the same identity
SlotsDistinct(config) ==
    Full(config) => config.userA.telegramId # config.userB.telegramId
\* handlers p and q have both registered their senders on the same Configuration read
RacedRegistration(p, q) ==
    /\ p # q /\ Handling(p) /\ Handling(q)
    /\ loc[p].next = "write" /\ loc[q].next = "write"
    /\ eff[p].writes = 1 /\ eff[q].writes = 1
    /\ loc[p].configRead = loc[q].configRead
    /\ loc[p].from # loc[q].from

\* C37: in every state, under any interleaving of registrations, settings
\* saves and resets, the two slots of the stored Configuration, and of the
\* default one, never hold the same identity.
C37_SlotsNeverEqual ==
    /\ SlotsDistinct(readConfig)
    /\ SlotsDistinct(storedConfig.input)
    /\ SlotsDistinct(DEFAULT_CONFIG)

\* two identities have raced for slot B and both slots are filled
C37_Witness ==
    /\ Full(readConfig)
    /\ \E p, q \in Procs : RacedRegistration(p, q) /\ loc[p].configRead.userA.telegramId # NoId

(* ----------------------- the registering message: claims -------------- *)
\* p handles a plain text of an identity in neither slot of the
\* Configuration it read, which has a slot left: the message registers its sender
RegistersSender(p) ==
    /\ Handling(p) /\ IsPlainText(loc[p].text)
    /\ RoleRead(p) = NoRole /\ ~Full(loc[p].configRead)
WelcomeOnly(p) ==
    \A i \in 1..Len(Sends(p)) :
        /\ Sends(p)[i].to = loc[p].from
        /\ Sends(p)[i].key \in {"welcomeUserA", "welcomeUserB"}
        /\ Sends(p)[i].text = ""

\* C38: the plain text that registers its sender is neither transformed nor
\* forwarded, whether or not the other participant is registered: its
\* handler calls no Capability Client, writes no trace and sends nothing but
\* the welcome to the sender, and it ends as a registration.
C38_RegisteringTextConsumed ==
    \A p \in Procs :
        RegistersSender(p) =>
            /\ Calls(p) = <<>> /\ Traces(p) = <<>>
            /\ WelcomeOnly(p)
            /\ loc[p].next = "write"
            /\ pc[p] = "done" => Len(Sends(p)) = 1

\* a plain text has registered its sender in slot B while slot A was filled
C38_Witness ==
    \E p \in Procs :
        /\ RegistersSender(p) /\ pc[p] = "done"
        /\ loc[p].configRead.userA.telegramId # NoId
        /\ readConfig.userB.telegramId = loc[p].from
        /\ Sends(p) = <<ReplySend(p, "welcomeUserB")>>

(* ------------------------- a failed read: claims ---------------------- *)
\* a handler is at work on a message for which its readConfig failed
FailedReadHandling == \E p \in Procs : Handling(p) /\ loc[p].readFailed
\* the participant stored in slot `role`, if any, is still stored there
AssignmentKept(role) ==
    UserOf(readConfig, role).telegramId # NoId =>
        UserOf(readConfig, role)' = UserOf(readConfig, role)

\* C39: no step of a message handler whose readConfig failed changes or
\* loses a participant assignment that was stored when the step began.
C39_FailedReadKeepsSlots ==
    [][FailedReadHandling => AssignmentKept("A") /\ AssignmentKept("B")]_vars

(* ----------------------- the default record: claims ------------------- *)
\* C40: the shared default record is never modified, and whenever no
\* Configuration record is stored readConfig returns the pristine default
\* (both slots empty, both languages 'auto', no custom language).
C40_DefaultPristine ==
    /\ DEFAULT_CONFIG = PristineDefaultConfig
    /\ ~storedConfig.exists => readConfig = PristineDefaultConfig

====
